---- MODULE Spec2Model ----
(***************************************************************************)
(* Model of QuantSpace/libs/qloptions.py: the vanilla commodity option     *)
(* pricer, its finite-difference Greek estimators, the structure builders  *)
(* (spread, collar, butterfly), the delta-implied strike solver and the    *)
(* Monte Carlo calendar spread.                                            *)
(* The last section models QuantSpace/libs/qlutils.py, the name tables and *)
(* their resolvers, with the functions of qlmisc.py, qlyield.py and        *)
(* qlvolsurface.py that call them.                                         *)
(*                                                                         *)
(* Fixed-point units.  Prices are integers (cents).  Volatilities are in   *)
(* volatility points (0.01), rates in 0.001, times in whole years, deltas  *)
(* and normal quantiles in hundredths.  Counts that the code coerces with  *)
(* int() (steps, paths) are carried in halves, so that 5 is 2.5, and None  *)
(* is the empty tuple.                                                     *)
(*                                                                         *)
(* The valuation engines themselves belong to the QuantLib library; they   *)
(* are represented by deterministic integer lattice valuations that read   *)
(* exactly the inputs the engine is constructed with (process, steps) and  *)
(* the option they are attached to.                                        *)
(***************************************************************************)
EXTENDS Integers, Sequences, FiniteSets, TLC

\* ------------------------------------------------------------------ bounds
MaxDate == 2
MaxEvalDate == 1
MaxSteps == 3
MaxPaths == 2

\* ------------------------------------------------------- program constants
DefaultVegaBump == 1
DefaultRhoBump == 1
num_steps == 365

\* ------------------------------------------------------------ input domains
Dates == 0..MaxDate
EvalDates == 0..MaxEvalDate
None == << >>
Num(v) == << v >>
StepsValues == {None, Num(0), Num(2 * MaxSteps - 1), Num(2 * MaxSteps)}
PathsValues == {Num(-2), Num(0)} \cup {Num(v) : v \in (2 * MaxPaths - 1)..(2 * MaxPaths)}
Forwards == {10000}
Strikes == {-1000, 0, 9000, 11000}
SpreadStrikes == {<<9000, 11000>>, <<11000, 9000>>, <<9000, -1000>>}
CollarStrikes == {<<11000, 9000>>, <<10000, 9000>>, <<9000, -1000>>}
ButterflyStrikes == {<<9000, 10000, 11000>>, <<9000, -1000, 11000>>, <<9000, 10000, -1000>>}
SpreadOptionStrikes == {0, 1000}
EstimatorStrikes == {9000, 11000}
Bumps == {0, 1, 2}
OptionTypes == {"CALL", "put", "STRADDLE"}
ExerciseTypes == {"EUROPEAN", "american", "BERMUDAN"}
Deltas == {-150, -50, 0, 25, 50, 100}
Correlations == {50}
Terminals == {<<9000, 11000>>, <<12000, 9000>>}

\* ------------------------------------------------------------ python pieces
\* str.upper() on the names that occur as inputs
upper(s) ==
    CASE s = "put" -> "PUT"
      [] s = "call" -> "CALL"
      [] s = "american" -> "AMERICAN"
      [] s = "european" -> "EUROPEAN"
      [] OTHER -> s

\* int(x): TypeError on None, truncation toward zero on a number (in halves)
int_ok(x) == x # None
int(x) == IF x[1] >= 0 THEN x[1] \div 2 ELSE -((-x[1]) \div 2)

Max(a, b) == IF a >= b THEN a ELSE b
LaterOf(a, b) == IF a >= b THEN a ELSE b
Min(a, b) == IF a <= b THEN a ELSE b

\* Python evaluates an expression once and binds the value to a name:
\* Let(e, LAMBDA x : Body) is Body with x bound to the value of e
Let(e, Body(_)) == CHOOSE y \in {Body(x) : x \in {e}} : TRUE

\* floats that may be non-finite: cls is "fin", "nan", "pinf" or "ninf"
Fin(v) == [cls |-> "fin", v |-> v]
NaN == [cls |-> "nan", v |-> 0]
PInf == [cls |-> "pinf", v |-> 0]
NInf == [cls |-> "ninf", v |-> 0]

\* integer square root
Isqrt(x) == CHOOSE s \in 0..(x + 1) : s * s <= x /\ (s + 1) * (s + 1) > x

\* np.exp on a finite argument given in 0.001, result in 0.001
np_exp(x) == 1000 + x + (x * x) \div 2000

\* np.sqrt of a whole number of years, result in 0.01
np_sqrt(t) == Isqrt(t * 10000)

\* scipy.stats.norm.ppf on a probability in 0.01, quantile in 0.01:
\* nan outside [0,1], -inf at 0, +inf at 1, interpolated table inside
PpfKnots == << <<1, -233>>, <<5, -164>>, <<10, -128>>, <<25, -67>>, <<50, 0>>,
               <<75, 67>>, <<90, 128>>, <<95, 164>>, <<99, 233>> >>
norm_ppf(p) ==
    IF p < 0 \/ p > 100 THEN NaN
    ELSE IF p = 0 THEN NInf
    ELSE IF p = 100 THEN PInf
    ELSE LET i == CHOOSE k \in 1..(Len(PpfKnots) - 1) :
                      PpfKnots[k][1] <= p /\ p <= PpfKnots[k + 1][1]
             a == PpfKnots[i]
             b == PpfKnots[i + 1]
         IN Fin(a[2] + ((p - a[1]) * (b[2] - a[2])) \div (b[1] - a[1]))

\* ------------------------------------------------------------ market objects
\* A yield curve: reference date, zero rate at the reference date, slope per year
YieldCurves == {[ref |-> 0, base |-> 50, term |-> 0],
                [ref |-> 0, base |-> 30, term |-> 10]}
\* A Black volatility surface: reference date, level, slope per year, smile
VolSurfaces == {[ref |-> 0, base |-> 20, term |-> 0, skew |-> 0],
                [ref |-> 0, base |-> 20, term |-> 1, skew |-> 2]}

\* DayCounter.yearFraction
yearFraction(d1, d2) == d2 - d1

\* YieldTermStructure.zeroRate(date, dayCounter, Continuous): a date before the
\* reference date is rejected by the library
zeroRate_ok(curve, d) == d >= curve.ref
zeroRate(curve, d) == curve.base + curve.term * yearFraction(curve.ref, d)

\* BlackVolTermStructure.blackVol(time, strike): a negative time is rejected
Abs(x) == IF x >= 0 THEN x ELSE -x
blackVolT_ok(vol, t) == t >= 0
blackVolT(vol, t, k) == vol.base + vol.term * t + (vol.skew * Abs(k - 10000)) \div 1000
\* BlackVolTermStructure.blackVol(date, strike)
blackVol_ok(vol, d, k) == d >= vol.ref /\ k.cls = "fin"
blackVol(vol, d, k) == blackVolT(vol, yearFraction(vol.ref, d), k.v)

\* ql.FlatForward(referenceDate, rate, dayCounter)
FlatForward(d, rate) == [ref |-> d, base |-> rate, term |-> 0]
\* ql.BlackConstantVol(referenceDate, calendar, volatility, dayCounter)
BlackConstantVol(d, v) == [ref |-> d, base |-> v, term |-> 0, skew |-> 0]
\* ql.BlackProcess(QuoteHandle(SimpleQuote(x0)), riskFreeTS, blackVolTS)
BlackProcess(x0, curve, vol) == [x0 |-> x0, curve |-> curve, vol |-> vol]

\* ------------------------------------------------------- valuation engines
\* PlainVanillaPayoff applied to an underlying value
PayoffValue(type, strike, s) ==
    IF type = "Call" THEN Max(s - strike, 0) ELSE Max(strike - s, 0)

\* Backward induction on a recombining lattice: node (i, j) of an n-step tree
\* with step h around x0, per-step discount 10000 / disc
RECURSIVE LatticeNode(_, _, _)
LatticeNode(p, i, j) ==
    LET s == p.x0 + p.h * (2 * j - i)
        intrinsic == PayoffValue(p.type, p.strike, s)
    IN IF i = p.n THEN intrinsic
       ELSE LET cont == ((LatticeNode(p, i + 1, j + 1) + LatticeNode(p, i + 1, j)) * 10000)
                            \div (2 * p.disc)
            IN IF p.american THEN Max(intrinsic, cont) ELSE cont

LatticeParams(x0, rate, vol, t, n, type, strike, american) ==
    [x0 |-> x0, h |-> (x0 * vol * Isqrt((100 * t) \div n)) \div 1000,
     disc |-> 10000 + (rate * 10 * t) \div n, n |-> n,
     type |-> type, strike |-> strike, american |-> american]

LatticeNPV(p) == LatticeNode(p, 0, 0)
LatticeDelta(p) ==
    ((LatticeNode(p, 2, 2) - LatticeNode(p, 2, 0)) * 100) \div (4 * p.h)
LatticeGamma(p) ==
    ((LatticeNode(p, 2, 2) - 2 * LatticeNode(p, 2, 1) + LatticeNode(p, 2, 0)) * 10000)
        \div (4 * p.h * p.h)
LatticeTheta(p, t) == ((LatticeNode(p, 2, 1) - LatticeNode(p, 0, 0)) * p.n) \div (2 * t)

\* ql.BinomialCRRVanillaEngine(process, steps): fewer than 2 steps are rejected
BinomialCRRVanillaEngine_ok(steps) == steps >= 2
BinomialCRRVanillaEngine(process, steps) ==
    [kind |-> "BinomialCRR", process |-> process, steps |-> steps]
\* ql.AnalyticEuropeanEngine(process)
AnalyticEuropeanEngine(process) ==
    [kind |-> "AnalyticEuropean", process |-> process, steps |-> 2]

\* ql.AmericanExercise(earliest, latest): earliest after latest is rejected
AmericanExercise_ok(earliest, latest) == earliest <= latest
\* ql.VanillaOption / ql.EuropeanOption with the engine last set on it
Option(type, strike, style, expiry, engine) ==
    [type |-> type, strike |-> strike, style |-> style, expiry |-> expiry,
     engine |-> engine]
setPricingEngine(option, engine) == [option EXCEPT !.engine = engine]

\* Instrument.isExpired(): the exercise date is not after the evaluation date
isExpired(option, evaluationDate) == option.expiry <= evaluationDate

\* The lattice the option's current engine values it on.  The binomial engine
\* reads the volatility at the underlying's level, the analytic engine at the
\* strike; both read rate and time to expiry from the process's yield curve.
EngineParams(option, dv, dr) ==
    LET pr == option.engine.process
        k == option.strike.v
        volat == IF option.engine.kind = "BinomialCRR"
                 THEN blackVolT(pr.vol, yearFraction(pr.vol.ref, option.expiry), pr.x0)
                 ELSE blackVolT(pr.vol, yearFraction(pr.vol.ref, option.expiry), k)
    IN LatticeParams(pr.x0, zeroRate(pr.curve, option.expiry) + dr, volat + dv,
                     yearFraction(pr.curve.ref, option.expiry), option.engine.steps,
                     option.type, k, option.engine.kind = "BinomialCRR")

\* A calculation is possible: finite strike, dates inside both term structures,
\* and for the analytic engine a non-negative strike
calculate_ok(option) ==
    LET pr == option.engine.process
    IN /\ option.strike.cls = "fin"
       /\ yearFraction(pr.curve.ref, option.expiry) > 0
       /\ option.expiry >= pr.vol.ref
       /\ option.engine.kind = "AnalyticEuropean" => option.strike.v >= 0

\* Instrument.NPV() and the Greeks: zero on an expired option, otherwise the
\* values of the engine currently set on the option
NPV_ok(option, evaluationDate) == isExpired(option, evaluationDate) \/ calculate_ok(option)
NPV(option, evaluationDate) ==
    IF isExpired(option, evaluationDate) THEN 0
    ELSE Let(EngineParams(option, 0, 0), LAMBDA p : LatticeNPV(p))
delta(option, evaluationDate) ==
    IF isExpired(option, evaluationDate) THEN 0
    ELSE Let(EngineParams(option, 0, 0), LAMBDA p : LatticeDelta(p))
gamma(option, evaluationDate) ==
    IF isExpired(option, evaluationDate) THEN 0
    ELSE Let(EngineParams(option, 0, 0), LAMBDA p : LatticeGamma(p))
theta(option, evaluationDate) ==
    IF isExpired(option, evaluationDate) THEN 0
    ELSE Let(EngineParams(option, 0, 0), LAMBDA p :
             LatticeTheta(p, yearFraction(option.engine.process.curve.ref, option.expiry)))
\* closed-form vega and rho of the analytic engine
vega(option, evaluationDate) ==
    IF isExpired(option, evaluationDate) THEN 0
    ELSE ((Let(EngineParams(option, 1, 0), LAMBDA p : LatticeNPV(p))
           - Let(EngineParams(option, -1, 0), LAMBDA p : LatticeNPV(p))) * 100) \div 2
rho(option, evaluationDate) ==
    IF isExpired(option, evaluationDate) THEN 0
    ELSE ((Let(EngineParams(option, 0, 1), LAMBDA p : LatticeNPV(p))
           - Let(EngineParams(option, 0, -1), LAMBDA p : LatticeNPV(p))) * 1000) \div 2

\* ------------------------------------------------------------ result values
\* pandas.DataFrame: row labels, column labels, one tuple of cells per column
DataFrame(values, columns, index) ==
    [index |-> index, columns |-> columns, values |-> values]
EmptyFrame == DataFrame(<< >>, << >>, << >>)
GreekIndexThetaLast == <<"price", "delta", "gamma", "vega", "rho", "theta">>
GreekIndex == <<"price", "delta", "gamma", "theta", "vega", "rho">>

\* a call that raised: no value reaches the caller
RaiseWithPartialFrame(err, events, evaluationDate) ==
    [ok |-> FALSE, error |-> err,
     frame |-> DataFrame(<< [i \in 1..Len(events) |-> 0] >>, << "partial" >>, events),
     events |-> events, evaluationDate |-> evaluationDate]
Raise(err, events, evaluationDate) ==
    [ok |-> FALSE, error |-> err, frame |-> EmptyFrame, events |-> events,
     evaluationDate |-> evaluationDate]
\* a call that returned its frame
Return(frame, events, evaluationDate) ==
    [ok |-> TRUE, error |-> "", frame |-> frame, events |-> events,
     evaluationDate |-> evaluationDate]

\* ---------------------------------------------------------- GreekEstimator
EstimateRaise(err, option, events) ==
    [ok |-> FALSE, error |-> err, value |-> 0, option |-> option, events |-> events]
EstimateReturn(value, option, events) ==
    [ok |-> TRUE, error |-> "", value |-> value, option |-> option, events |-> events]

\* The lines both estimators repeat for each shifted process: build the binomial
\* engine with int(steps), set it on the option, read the NPV
BumpedPriceOtherSteps(option, process_b, steps, evaluationDate) ==
    IF ~int_ok(steps) THEN EstimateRaise("TypeError", option, <<"BlackProcess">>)
    ELSE IF ~BinomialCRRVanillaEngine_ok(int(steps))
    THEN EstimateRaise("RuntimeError", option, <<"BlackProcess">>)
    ELSE Let(setPricingEngine(option, BinomialCRRVanillaEngine(process_b, int(steps) + 1)),
             LAMBDA option_b :
             IF ~NPV_ok(option_b, evaluationDate)
             THEN EstimateRaise("RuntimeError", option_b,
                                <<"BlackProcess", "BinomialCRRVanillaEngine",
                                  "setPricingEngine">>)
             ELSE EstimateReturn(NPV(option_b, evaluationDate), option_b,
                                 <<"BlackProcess", "BinomialCRRVanillaEngine",
                                   "setPricingEngine", "NPV">>))

BumpedPrice(option, process_b, steps, evaluationDate) ==
    IF ~int_ok(steps) THEN EstimateRaise("TypeError", option, <<"BlackProcess">>)
    ELSE IF ~BinomialCRRVanillaEngine_ok(int(steps))
    THEN EstimateRaise("RuntimeError", option, <<"BlackProcess">>)
    ELSE Let(setPricingEngine(option, BinomialCRRVanillaEngine(process_b, int(steps))),
             LAMBDA option_b :
             IF ~NPV_ok(option_b, evaluationDate)
             THEN EstimateRaise("RuntimeError", option_b,
                                <<"BlackProcess", "BinomialCRRVanillaEngine",
                                  "setPricingEngine">>)
             ELSE EstimateReturn(NPV(option_b, evaluationDate), option_b,
                                 <<"BlackProcess", "BinomialCRRVanillaEngine",
                                   "setPricingEngine", "NPV">>))

\* (price_up - price_down) / (2 * bump), the bump being given in 1/unit;
\* Python raises ZeroDivisionError on a zero divisor
FdQuotient_ok(bump) == 2 * bump # 0
FdQuotient(price_up, price_down, bump, unit) ==
    ((price_up - price_down) * unit) \div (2 * bump)

\* lines 279-280 and 309-310: the quotient of two Python floats, which raises
\* ZeroDivisionError on a zero denominator, and the return
CentralDifferenceUnchecked(price_up, price_down, bump, unit, option, events) ==
    IF ~FdQuotient_ok(bump) THEN EstimateReturn(0, option, events)
    ELSE EstimateReturn(FdQuotient(price_up, price_down, bump, unit), option, events)
CentralDifference(price_up, price_down, bump, unit, option, events) ==
    IF ~FdQuotient_ok(bump) THEN EstimateRaise("ZeroDivisionError", option, events)
    ELSE EstimateReturn(FdQuotient(price_up, price_down, bump, unit), option, events)

estimate_vega(option, process, volatility, strike_price, expiry_date, steps, bump, evaluationDate) ==
    IF ~blackVol_ok(volatility, expiry_date, strike_price)
    THEN EstimateRaise("RuntimeError", option, <<"blackVol">>)
    ELSE
    Let(BumpedPrice(option,
                    BlackProcess(process.x0, process.curve,
                                 BlackConstantVol(evaluationDate,
                                     blackVol(volatility, expiry_date, strike_price) + bump)),
                    steps, evaluationDate),
    LAMBDA up :
    IF ~up.ok
    THEN EstimateRaise(up.error, up.option, <<"blackVol", "BlackConstantVol">> \o up.events)
    ELSE
    Let(BumpedPrice(up.option,
                    BlackProcess(process.x0, process.curve,
                                 BlackConstantVol(evaluationDate,
                                     blackVol(volatility, expiry_date, strike_price) - bump)),
                    steps, evaluationDate),
    LAMBDA down :
    LET ev == <<"blackVol", "BlackConstantVol">> \o up.events
                  \o <<"blackVol", "BlackConstantVol">> \o down.events
    IN IF ~down.ok THEN EstimateRaise(down.error, down.option, ev)
       ELSE CentralDifference(up.value, down.value, bump, 100, down.option, ev)))

estimate_rho(option, process, yield_curve, volatility, expiry_date, steps, bump, evaluationDate) ==
    IF ~zeroRate_ok(yield_curve, expiry_date)
    THEN EstimateRaise("RuntimeError", option, <<"zeroRate">>)
    ELSE
    Let(BumpedPrice(option,
                    BlackProcess(process.x0,
                                 FlatForward(evaluationDate,
                                             zeroRate(yield_curve, expiry_date) + bump),
                                 volatility),
                    steps, evaluationDate),
    LAMBDA up :
    IF ~up.ok
    THEN EstimateRaise(up.error, up.option, <<"zeroRate", "FlatForward">> \o up.events)
    ELSE
    Let(BumpedPrice(up.option,
                    BlackProcess(process.x0,
                                 FlatForward(evaluationDate,
                                             zeroRate(yield_curve, expiry_date) - bump),
                                 volatility),
                    steps, evaluationDate),
    LAMBDA down :
    LET ev == <<"zeroRate", "FlatForward">> \o up.events \o <<"FlatForward">> \o down.events
    IN IF ~down.ok THEN EstimateRaise(down.error, down.option, ev)
       ELSE CentralDifference(up.value, down.value, bump, 1000, down.option, ev)))

\* -------------------------------------------------------- VanillaOptionPricer
\* The frame of line 53: NPV, delta, gamma, theta read from the option as it is
\* after the branch, then the branch's vega and rho
GreekFrame(option, option_vega, option_rho, option_type, evaluationDate, events) ==
    IF ~NPV_ok(option, evaluationDate) THEN Raise("RuntimeError", events, evaluationDate)
    ELSE Return(DataFrame(<< << NPV(option, evaluationDate), delta(option, evaluationDate),
                               gamma(option, evaluationDate), theta(option, evaluationDate),
                               option_vega, option_rho >> >>,
                          << option_type >>, GreekIndex),
                events \o <<"NPV", "delta", "gamma", "theta", "DataFrame">>, evaluationDate)

\* lines 40-45: the AMERICAN branch
AmericanBranch(evaluation_date, expiry_date, process, option_type_ql, strike_price, option_type, steps, volatility, yield_curve, ev0) ==
    IF ~AmericanExercise_ok(evaluation_date, expiry_date)
    THEN Raise("RuntimeError", ev0, evaluation_date)
    ELSE IF ~int_ok(steps)
    THEN Raise("TypeError", Append(ev0, "AmericanExercise"), evaluation_date)
    ELSE IF ~BinomialCRRVanillaEngine_ok(int(steps))
    THEN Raise("RuntimeError", Append(ev0, "AmericanExercise"), evaluation_date)
    ELSE
    Let(Option(option_type_ql, strike_price, "American", expiry_date,
               BinomialCRRVanillaEngine(process, int(steps))),
    LAMBDA option :
    Let(estimate_vega(option, process, volatility, strike_price, expiry_date, steps,
                      DefaultVegaBump, evaluation_date),
    LAMBDA v :
    LET ev2 == ev0 \o <<"AmericanExercise", "BinomialCRRVanillaEngine", "VanillaOption",
                        "setPricingEngine", "estimate_vega">> \o v.events
    IN IF ~v.ok THEN Raise(v.error, ev2, evaluation_date)
       ELSE
       Let(estimate_rho(v.option, process, yield_curve, volatility, expiry_date, steps,
                        DefaultRhoBump, evaluation_date),
       LAMBDA r :
       IF ~r.ok THEN Raise(r.error, ev2 \o <<"estimate_rho">> \o r.events, evaluation_date)
       ELSE GreekFrame(r.option, v.value, r.value, option_type, evaluation_date,
                       ev2 \o <<"estimate_rho">> \o r.events))))

\* lines 47-51: the other branch
EuropeanBranchEstimating(evaluation_date, expiry_date, process, option_type_ql, strike_price, option_type, ev0) ==
    Let(Option(option_type_ql, strike_price, "European", expiry_date,
               AnalyticEuropeanEngine(process)),
    LAMBDA option :
    LET ev1 == ev0 \o <<"AnalyticEuropeanEngine", "EuropeanOption", "setPricingEngine">>
    IN IF ~NPV_ok(option, evaluation_date)
       THEN Raise("RuntimeError", ev1, evaluation_date)
       ELSE GreekFrame(option, vega(option, evaluation_date), rho(option, evaluation_date),
                       option_type, evaluation_date, ev1 \o <<"estimate_vega", "estimate_rho">>))
EuropeanBranch(evaluation_date, expiry_date, process, option_type_ql, strike_price, option_type, ev0) ==
    Let(Option(option_type_ql, strike_price, "European", expiry_date,
               AnalyticEuropeanEngine(process)),
    LAMBDA option :
    LET ev1 == ev0 \o <<"AnalyticEuropeanEngine", "EuropeanOption", "setPricingEngine">>
    IN IF ~NPV_ok(option, evaluation_date)
       THEN Raise("RuntimeError", ev1, evaluation_date)
       ELSE GreekFrame(option, vega(option, evaluation_date), rho(option, evaluation_date),
                       option_type, evaluation_date, ev1 \o <<"vega", "rho">>))

comdty_vanilla_optionProcessFirst(evaluation_date, expiry_date, forward_price, strike_price, option_type, exercise_type, steps, volatility, yield_curve) ==
    LET option_type_ql == IF upper(option_type) = "CALL" THEN "Call" ELSE "Put"
        process == BlackProcess(forward_price, yield_curve, volatility)
        ev0 == <<"BlackProcess", "Settings.evaluationDate", "PlainVanillaPayoff">>
    IN IF upper(exercise_type) = "AMERICAN"
       THEN AmericanBranch(evaluation_date, expiry_date, process, option_type_ql,
                           strike_price, option_type, steps, volatility, yield_curve, ev0)
       ELSE EuropeanBranch(evaluation_date, expiry_date, process, option_type_ql,
                           strike_price, option_type, ev0)
comdty_vanilla_option(evaluation_date, expiry_date, forward_price, strike_price, option_type, exercise_type, steps, volatility, yield_curve) ==
    LET option_type_ql == IF upper(option_type) = "CALL" THEN "Call" ELSE "Put"
        process == BlackProcess(forward_price, yield_curve, volatility)
        ev0 == <<"Settings.evaluationDate", "BlackProcess", "PlainVanillaPayoff">>
    IN IF upper(exercise_type) = "AMERICAN"
       THEN AmericanBranch(evaluation_date, expiry_date, process, option_type_ql,
                           strike_price, option_type, steps, volatility, yield_curve, ev0)
       ELSE EuropeanBranch(evaluation_date, expiry_date, process, option_type_ql,
                           strike_price, option_type, ev0)

\* ----------------------------------------------------------- StructureBuilder
\* element-wise arithmetic on the cells of frames' columns
ColSub(a, b) == [i \in 1..Len(a) |-> a[i] - b[i]]
ColButterfly(low, middle, high) == [i \in 1..Len(low) |-> low[i] - 2 * middle[i] + high[i]]
\* frame.columns = [label]
Relabel(frame, label) == [frame EXCEPT !.columns = << label >>]
\* pd.concat(frames, axis=1) of frames with the same index
ConcatColumns(frames) ==
    LET RECURSIVE Cols(_), Vals(_)
        Cols(k) == IF k = 0 THEN << >> ELSE Cols(k - 1) \o frames[k].columns
        Vals(k) == IF k = 0 THEN << >> ELSE Vals(k - 1) \o frames[k].values
    IN DataFrame(Vals(Len(frames)), Cols(Len(frames)), frames[1].index)
\* pd.concat([a, b], axis=0) of two single-column frames with the same column
ConcatRows(a, b) ==
    DataFrame(<< a.values[1] \o b.values[1] >>, a.columns, a.index \o b.index)

\* lines 114-117
SpreadFrameShortMinusLong(long_frame, short_frame, option_type) ==
    ConcatColumns(<< Relabel(long_frame, long_frame.columns[1] \o "_LONG"),
                     Relabel(short_frame, short_frame.columns[1] \o "_SHORT"),
                     DataFrame(<< ColSub(short_frame.values[1], long_frame.values[1]) >>,
                               << option_type \o "_SPREAD" >>, GreekIndex) >>)
SpreadFrame(long_frame, short_frame, option_type) ==
    ConcatColumns(<< Relabel(long_frame, long_frame.columns[1] \o "_LONG"),
                     Relabel(short_frame, short_frame.columns[1] \o "_SHORT"),
                     DataFrame(<< ColSub(long_frame.values[1], short_frame.values[1]) >>,
                               << option_type \o "_SPREAD" >>, GreekIndex) >>)

comdty_vanilla_option_spread(evaluation_date, expiry_date, forward_price, strike_price_long, strike_price_short, option_type, exercise_type, steps, volatility, yield_curve) ==
    Let(comdty_vanilla_option(evaluation_date, expiry_date, forward_price, strike_price_long,
                              option_type, exercise_type, steps, volatility, yield_curve),
    LAMBDA long :
    IF ~long.ok THEN long
    ELSE
    Let(comdty_vanilla_option(evaluation_date, expiry_date, forward_price,
                              strike_price_short, option_type, exercise_type, steps,
                              volatility, yield_curve),
    LAMBDA short :
    IF ~short.ok THEN Raise(short.error, long.events \o short.events, short.evaluationDate)
    ELSE Return(SpreadFrame(long.frame, short.frame, option_type),
                long.events \o short.events \o <<"DataFrame", "concat">>,
                short.evaluationDate)))

\* lines 138-139
CollarFrameCallMinusPut(call_frame, put_frame) ==
    ConcatColumns(<< call_frame, put_frame,
                     DataFrame(<< ColSub(call_frame.values[1], put_frame.values[1]) >>,
                               << "COLLAR" >>, GreekIndex) >>)
CollarFrame(call_frame, put_frame) ==
    ConcatColumns(<< call_frame, put_frame,
                     DataFrame(<< ColSub(put_frame.values[1], call_frame.values[1]) >>,
                               << "COLLAR" >>, GreekIndex) >>)

comdty_vanilla_option_collar(evaluation_date, expiry_date, forward_price, strike_price_call_short, strike_price_put_long, exercise_type, steps, volatility, yield_curve) ==
    Let(comdty_vanilla_option(evaluation_date, expiry_date, forward_price,
                              strike_price_call_short, "CALL", exercise_type, steps,
                              volatility, yield_curve),
    LAMBDA call :
    IF ~call.ok THEN call
    ELSE
    Let(comdty_vanilla_option(evaluation_date, expiry_date, forward_price,
                              strike_price_put_long, "PUT", exercise_type, steps, volatility,
                              yield_curve),
    LAMBDA put :
    IF ~put.ok THEN Raise(put.error, call.events \o put.events, put.evaluationDate)
    ELSE Return(CollarFrame(call.frame, put.frame),
                call.events \o put.events \o <<"DataFrame", "concat">>,
                put.evaluationDate)))

\* lines 163-167
ButterflyFrameSingleMiddle(low_frame, middle_frame, high_frame, option_type) ==
    ConcatColumns(<< Relabel(low_frame, low_frame.columns[1] \o "_LOW"),
                     Relabel(middle_frame, middle_frame.columns[1] \o "_MIDDLE"),
                     Relabel(high_frame, high_frame.columns[1] \o "_HIGH"),
                     DataFrame(<< [i \in 1..Len(low_frame.values[1]) |->
                                     low_frame.values[1][i] - middle_frame.values[1][i]
                                     + high_frame.values[1][i]] >>,
                               << option_type \o "_BUTTERFLY" >>, GreekIndex) >>)
ButterflyFrame(low_frame, middle_frame, high_frame, option_type) ==
    ConcatColumns(<< Relabel(low_frame, low_frame.columns[1] \o "_LOW"),
                     Relabel(middle_frame, middle_frame.columns[1] \o "_MIDDLE"),
                     Relabel(high_frame, high_frame.columns[1] \o "_HIGH"),
                     DataFrame(<< ColButterfly(low_frame.values[1], middle_frame.values[1],
                                               high_frame.values[1]) >>,
                               << option_type \o "_BUTTERFLY" >>, GreekIndex) >>)

comdty_vanilla_option_butterfly(evaluation_date, expiry_date, forward_price, strike_price_low_long, strike_price_middle_short, strike_price_high_long, option_type, exercise_type, steps, volatility, yield_curve) ==
    Let(comdty_vanilla_option(evaluation_date, expiry_date, forward_price,
                              strike_price_low_long, option_type, exercise_type, steps,
                              volatility, yield_curve),
    LAMBDA low :
    IF ~low.ok THEN low
    ELSE
    Let(comdty_vanilla_option(evaluation_date, expiry_date, forward_price,
                              strike_price_middle_short, option_type, exercise_type, steps,
                              volatility, yield_curve),
    LAMBDA middle :
    IF ~middle.ok
    THEN Raise(middle.error, low.events \o middle.events, middle.evaluationDate)
    ELSE
    Let(comdty_vanilla_option(evaluation_date, expiry_date, forward_price,
                              strike_price_high_long, option_type, exercise_type, steps,
                              volatility, yield_curve),
    LAMBDA high :
    IF ~high.ok
    THEN Raise(high.error, low.events \o middle.events \o high.events, high.evaluationDate)
    ELSE Return(ButterflyFrame(low.frame, middle.frame, high.frame, option_type),
                low.events \o middle.events \o high.events \o <<"DataFrame", "concat">>,
                high.evaluationDate))))

\* -------------------------------------------------- delta-implied strike solve
StrikeIndex == <<"d1", "riskfree_rate", "volatility_atm", "years_to_maturity", "strike_price">>

\* the argument of norm.ppf (lines 80-83), in 0.01
PpfArgumentNoPutOffset(delta_, option_type, riskfree_rate, years_to_maturity) ==
    (delta_ * np_exp(riskfree_rate * years_to_maturity)) \div 1000
PpfArgument(delta_, option_type, riskfree_rate, years_to_maturity) ==
    IF upper(option_type) = "CALL"
    THEN (delta_ * np_exp(riskfree_rate * years_to_maturity)) \div 1000
    ELSE (delta_ * np_exp(riskfree_rate * years_to_maturity)) \div 1000 + 100

\* forward / exp(vol * sqrt(T) * d1 - 0.5 * vol^2 * T) (line 85) in IEEE arithmetic:
\* 0 * inf is nan, exp(+inf) is inf, exp(-inf) is 0 and a division by 0.0 gives inf
ImpliedStrike(forward_price, volatility_atm, years_to_maturity, d1) ==
    LET vs == volatility_atm * np_sqrt(years_to_maturity)
        half == (volatility_atm * volatility_atm * years_to_maturity) \div 20
    IN CASE d1.cls = "nan" -> NaN
         [] d1.cls = "pinf" -> IF vs = 0 THEN NaN ELSE Fin(0)
         [] d1.cls = "ninf" -> IF vs = 0 THEN NaN ELSE PInf
         [] OTHER -> Fin((forward_price * 1000) \div np_exp((vs * d1.v) \div 1000 - half))

comdty_vanilla_option_delta(evaluation_date, expiry_date, forward_price, delta_, option_type, volatility, yield_curve, evaluationDate) ==
    IF ~zeroRate_ok(yield_curve, expiry_date)
    THEN Raise("RuntimeError", <<"yearFraction", "zeroRate">>, evaluationDate)
    ELSE IF ~blackVolT_ok(volatility, yearFraction(evaluation_date, expiry_date))
    THEN Raise("RuntimeError", <<"yearFraction", "zeroRate", "blackVol">>, evaluationDate)
    ELSE
    Let(yearFraction(evaluation_date, expiry_date), LAMBDA years_to_maturity :
    Let(zeroRate(yield_curve, expiry_date), LAMBDA riskfree_rate :
    Let(blackVolT(volatility, years_to_maturity, forward_price), LAMBDA volatility_atm :
    Let(norm_ppf(PpfArgument(delta_, option_type, riskfree_rate, years_to_maturity)),
    LAMBDA d1 :
    Let(ImpliedStrike(forward_price, volatility_atm, years_to_maturity, d1),
    LAMBDA strike_price :
    Let(comdty_vanilla_option(evaluation_date, expiry_date, forward_price, strike_price,
                              option_type, "EUROPEAN", None, volatility, yield_curve),
    LAMBDA option :
    LET ev == <<"yearFraction", "zeroRate", "blackVol", "norm.ppf">> \o option.events
    IN IF ~option.ok THEN Raise(option.error, ev, option.evaluationDate)
       ELSE Return(ConcatRows(option.frame,
                              DataFrame(<< << d1, riskfree_rate, volatility_atm,
                                              years_to_maturity, strike_price >> >>,
                                        << option_type >>, StrikeIndex)),
                   ev \o <<"DataFrame", "concat">>, option.evaluationDate)))))))

\* ---------------------------------------------------- CalendarSpreadSimulator
CalendarIndex == <<"price", "payoff", "risk_free_rate_long", "risk_free_rate_short",
                   "volatility_long", "volatility_short">>

RECURSIVE SumSeq(_)
SumSeq(s) == IF Len(s) = 0 THEN 0 ELSE s[1] + SumSeq(Tail(s))

\* np.mean: nan on an empty array
np_mean(s) == IF Len(s) = 0 THEN NaN ELSE Fin(SumSeq(s) \div Len(s))

\* payoff * discount_factor, the discount factor in 0.001
Discounted(payoff, discount_factor) ==
    IF payoff.cls = "fin" THEN Fin((payoff.v * discount_factor) \div 1000) ELSE payoff

\* lines 226-243: the loop over int(paths) draws, the payoff and its discounting.
\* `stream` is what successive gaussian_path_generator.next() calls yield: the
\* terminal nodes <<long, short>> of each multi-path
SimulateRoundingUp(strike_price, option_type, risk_free_rate, years_to_maturity, paths, stream) ==
    LET n == Max((paths[1] + 1) \div 2, 0)
        spread == [i \in 1..n |-> stream[i][1] - stream[i][2]]
        payoff == IF upper(option_type) = "CALL"
                  THEN np_mean([i \in 1..n |-> Max(spread[i] - strike_price, 0)])
                  ELSE np_mean([i \in 1..n |-> Max(strike_price - spread[i], 0)])
    IN [draws |-> n, payoff |-> payoff,
        price |-> Discounted(payoff, np_exp(-(risk_free_rate * years_to_maturity)))]
Simulate(strike_price, option_type, risk_free_rate, years_to_maturity, paths, stream) ==
    LET n == Max(int(paths), 0)
        spread == [i \in 1..n |-> stream[i][1] - stream[i][2]]
        payoff == IF upper(option_type) = "CALL"
                  THEN np_mean([i \in 1..n |-> Max(spread[i] - strike_price, 0)])
                  ELSE np_mean([i \in 1..n |-> Max(strike_price - spread[i], 0)])
    IN [draws |-> n, payoff |-> payoff,
        price |-> Discounted(payoff, np_exp(-(risk_free_rate * years_to_maturity)))]

comdty_vanilla_option_calendar_spread(evaluation_date, expiry_date_long, expiry_date_short, forward_price, strike_price, option_type, correlation, volatility, yield_curve, paths, stream) ==
    LET ev0 == <<"Settings.evaluationDate">>
    IN IF ~(blackVol_ok(volatility, expiry_date_long, Fin(forward_price))
            /\ blackVol_ok(volatility, expiry_date_short, Fin(forward_price)))
       THEN Raise("RuntimeError", Append(ev0, "blackVol"), evaluation_date)
       ELSE IF ~(zeroRate_ok(yield_curve, expiry_date_long)
                 /\ zeroRate_ok(yield_curve, expiry_date_short))
       THEN Raise("RuntimeError", ev0 \o <<"blackVol", "blackVol", "BlackConstantVol",
                                           "BlackConstantVol", "zeroRate">>, evaluation_date)
       ELSE
       LET volatility_long == blackVol(volatility, expiry_date_long, Fin(forward_price))
           volatility_short == blackVol(volatility, expiry_date_short, Fin(forward_price))
           riskfree_rate_long == zeroRate(yield_curve, expiry_date_long)
           riskfree_rate_short == zeroRate(yield_curve, expiry_date_short)
           expiry_date_min == Min(expiry_date_long, expiry_date_short)
           risk_free_rate == IF expiry_date_min = expiry_date_long
                             THEN riskfree_rate_long ELSE riskfree_rate_short
           years_to_maturity == yearFraction(evaluation_date, expiry_date_min)
           ev1 == ev0 \o <<"blackVol", "blackVol", "BlackConstantVol", "BlackConstantVol",
                           "zeroRate", "zeroRate", "FlatForward", "FlatForward",
                           "BlackProcess", "BlackProcess", "StochasticProcessArray",
                           "yearFraction">>
       IN IF years_to_maturity <= 0 THEN Raise("RuntimeError", ev1, evaluation_date)
          ELSE IF ~int_ok(paths)
          THEN Raise("TypeError", ev1 \o <<"TimeGrid", "GaussianMultiPathGenerator">>,
                     evaluation_date)
          ELSE
          Let(Simulate(strike_price, option_type, risk_free_rate, years_to_maturity, paths,
                       stream),
          LAMBDA sim :
          Return(DataFrame(<< << sim.price, sim.payoff, riskfree_rate_long,
                                 riskfree_rate_short, volatility_long, volatility_short >> >>,
                           << option_type >>, CalendarIndex),
                 ev1 \o <<"TimeGrid", "GaussianMultiPathGenerator">>
                     \o [i \in 1..sim.draws |-> "next"] \o <<"mean", "DataFrame">>,
                 evaluation_date))

\* ------------------------------------------------------------ state machine
\* evaluationDate: ql.Settings.instance().evaluationDate, the one piece of state
\*                 that outlives a call
\* request:        the entry point being served and its arguments
\* result:         what that call handed back (a frame or an exception) and the
\*                 library calls it made, in order
VARIABLES evaluationDate, request, result
vars == <<evaluationDate, request, result>>

NoRequest == [op |-> "none"]
NoResult == [ok |-> FALSE, error |-> "none", frame |-> EmptyFrame, events |-> << >>]
Outcome(r) == [ok |-> r.ok, error |-> r.error, frame |-> r.frame, events |-> r.events]

Init ==
    /\ evaluationDate \in EvalDates
    /\ request = NoRequest
    /\ result = NoResult

VanillaOption ==
    /\ request = NoRequest
    /\ \E ed \in EvalDates, xd \in Dates, f \in Forwards, k \in Strikes, ot \in OptionTypes,
          et \in ExerciseTypes, st \in StepsValues, vol \in VolSurfaces, yc \in YieldCurves :
          \E r \in {comdty_vanilla_option(ed, xd, f, Fin(k), ot, et, st, vol, yc)} :
             /\ request' = [op |-> "comdty_vanilla_option", evaluation_date |-> ed,
                            expiry_date |-> xd, forward_price |-> f, strike_price |-> k,
                            option_type |-> ot, exercise_type |-> et, steps |-> st,
                            volatility |-> vol, yield_curve |-> yc]
             /\ result' = Outcome(r)
             /\ evaluationDate' = r.evaluationDate

OptionDelta ==
    /\ request = NoRequest
    /\ \E ed \in EvalDates, xd \in Dates, f \in Forwards, d \in Deltas, ot \in OptionTypes,
          vol \in VolSurfaces, yc \in YieldCurves :
          \E r \in {comdty_vanilla_option_delta(ed, xd, f, d, ot, vol, yc, evaluationDate)} :
             /\ request' = [op |-> "comdty_vanilla_option_delta", evaluation_date |-> ed,
                            expiry_date |-> xd, forward_price |-> f, delta |-> d,
                            option_type |-> ot, volatility |-> vol, yield_curve |-> yc]
             /\ result' = Outcome(r)
             /\ evaluationDate' = r.evaluationDate

OptionSpread ==
    /\ request = NoRequest
    /\ \E ed \in EvalDates, xd \in Dates, f \in Forwards, ks \in SpreadStrikes,
          ot \in OptionTypes, et \in ExerciseTypes, st \in StepsValues, vol \in VolSurfaces,
          yc \in YieldCurves :
          \E r \in {comdty_vanilla_option_spread(ed, xd, f, Fin(ks[1]), Fin(ks[2]), ot, et,
                                                 st, vol, yc)} :
             /\ request' = [op |-> "comdty_vanilla_option_spread", evaluation_date |-> ed,
                            expiry_date |-> xd, forward_price |-> f,
                            strike_price_long |-> ks[1], strike_price_short |-> ks[2],
                            option_type |-> ot, exercise_type |-> et, steps |-> st,
                            volatility |-> vol, yield_curve |-> yc]
             /\ result' = Outcome(r)
             /\ evaluationDate' = r.evaluationDate

OptionCollar ==
    /\ request = NoRequest
    /\ \E ed \in EvalDates, xd \in Dates, f \in Forwards, ks \in CollarStrikes,
          et \in ExerciseTypes, st \in StepsValues, vol \in VolSurfaces, yc \in YieldCurves :
          \E r \in {comdty_vanilla_option_collar(ed, xd, f, Fin(ks[1]), Fin(ks[2]), et, st,
                                                 vol, yc)} :
             /\ request' = [op |-> "comdty_vanilla_option_collar", evaluation_date |-> ed,
                            expiry_date |-> xd, forward_price |-> f,
                            strike_price_call_short |-> ks[1],
                            strike_price_put_long |-> ks[2],
                            exercise_type |-> et, steps |-> st,
                            volatility |-> vol, yield_curve |-> yc]
             /\ result' = Outcome(r)
             /\ evaluationDate' = r.evaluationDate

OptionButterfly ==
    /\ request = NoRequest
    /\ \E ed \in EvalDates, xd \in Dates, f \in Forwards, ks \in ButterflyStrikes,
          ot \in OptionTypes, et \in ExerciseTypes, st \in StepsValues, vol \in VolSurfaces,
          yc \in YieldCurves :
          \E r \in {comdty_vanilla_option_butterfly(ed, xd, f, Fin(ks[1]), Fin(ks[2]),
                                                    Fin(ks[3]), ot, et, st, vol, yc)} :
             /\ request' = [op |-> "comdty_vanilla_option_butterfly", evaluation_date |-> ed,
                            expiry_date |-> xd, forward_price |-> f,
                            strike_price_low_long |-> ks[1],
                            strike_price_middle_short |-> ks[2],
                            strike_price_high_long |-> ks[3],
                            option_type |-> ot, exercise_type |-> et, steps |-> st,
                            volatility |-> vol, yield_curve |-> yc]
             /\ result' = Outcome(r)
             /\ evaluationDate' = r.evaluationDate

CalendarSpread ==
    /\ request = NoRequest
    /\ \E ed \in EvalDates, xl \in Dates, xs \in Dates, f \in Forwards,
          k \in SpreadOptionStrikes, ot \in OptionTypes, c \in Correlations,
          vol \in VolSurfaces, yc \in YieldCurves, pa \in PathsValues,
          stream \in [1..MaxPaths -> Terminals] :
          \E r \in {comdty_vanilla_option_calendar_spread(ed, xl, xs, f, k, ot, c, vol, yc,
                                                          pa, stream)} :
             /\ request' = [op |-> "comdty_vanilla_option_calendar_spread",
                            evaluation_date |-> ed, expiry_date_long |-> xl,
                            expiry_date_short |-> xs, forward_price |-> f,
                            strike_price |-> k, option_type |-> ot, correlation |-> c,
                            volatility |-> vol, yield_curve |-> yc, paths |-> pa,
                            stream |-> stream]
             /\ result' = Outcome(r)
             /\ evaluationDate' = r.evaluationDate

\* a direct call of an estimator, on an option set up as lines 41-43 set it up
EstimatorOption(ot, k, xd, f, vol, yc, base_steps) ==
    Option(ot, Fin(k), "American", xd,
           BinomialCRRVanillaEngine(BlackProcess(f, yc, vol), base_steps))

EstimateVega ==
    /\ request = NoRequest
    /\ \E xd \in Dates, f \in Forwards, k \in EstimatorStrikes, ot \in {"Call", "Put"},
          st \in StepsValues, vol \in VolSurfaces, yc \in YieldCurves, bump \in Bumps :
          \E option \in {EstimatorOption(ot, k, xd, f, vol, yc, MaxSteps)} :
          \E r \in {estimate_vega(option, BlackProcess(f, yc, vol), vol, Fin(k), xd, st, bump,
                                  evaluationDate)} :
             /\ request' = [op |-> "estimate_vega", option |-> option,
                            process |-> BlackProcess(f, yc, vol), volatility |-> vol,
                            strike_price |-> k, expiry_date |-> xd, steps |-> st,
                            bump |-> bump]
             /\ result' = r
             /\ UNCHANGED evaluationDate

EstimateRho ==
    /\ request = NoRequest
    /\ \E xd \in Dates, f \in Forwards, k \in EstimatorStrikes, ot \in {"Call", "Put"},
          st \in StepsValues, vol \in VolSurfaces, yc \in YieldCurves, bump \in Bumps :
          \E option \in {EstimatorOption(ot, k, xd, f, vol, yc, MaxSteps)} :
          \E r \in {estimate_rho(option, BlackProcess(f, yc, vol), yc, vol, xd, st, bump,
                                 evaluationDate)} :
             /\ request' = [op |-> "estimate_rho", option |-> option,
                            process |-> BlackProcess(f, yc, vol), yield_curve |-> yc,
                            volatility |-> vol, expiry_date |-> xd, steps |-> st,
                            bump |-> bump]
             /\ result' = r
             /\ UNCHANGED evaluationDate

\* the caller takes the result; nothing of the call is kept but the global date
Consume ==
    /\ request # NoRequest
    /\ request' = NoRequest
    /\ result' = NoResult
    /\ UNCHANGED evaluationDate

Next ==
    \/ VanillaOption
    \/ OptionDelta
    \/ OptionSpread
    \/ OptionCollar
    \/ OptionButterfly
    \/ CalendarSpread
    \/ EstimateVega
    \/ EstimateRho
    \/ Consume

Spec == Init /\ [][Next]_vars

\* ------------------------------------------------------------------ claims
Served(op) == request.op = op
Made(call) == \E i \in 1..Len(result.events) : result.events[i] = call
QlType(option_type) == IF upper(option_type) = "CALL" THEN "Call" ELSE "Put"

\* the option of an AMERICAN request with the engine line 41-43 sets on it: the
\* binomial tree on the caller's curve and surface, int(steps) steps
UnshiftedOption(rq) ==
    Option(QlType(rq.option_type), Fin(rq.strike_price), "American", rq.expiry_date,
           BinomialCRRVanillaEngine(
               BlackProcess(rq.forward_price, rq.yield_curve, rq.volatility), int(rq.steps)))

\* the price of `option` on a binomial tree of `steps` steps over `process`
ShiftedPrice(option, process, steps, date) ==
    NPV(setPricingEngine(option, BinomialCRRVanillaEngine(process, steps)), date)

\* C1: an AMERICAN leg's price, delta, gamma and theta are the values on the
\* binomial tree of the unshifted process (the caller's curve and surface,
\* int(steps) steps), not those under a bumped volatility or a bumped rate.
C1_AmericanGreeksOnUnshiftedTree ==
    (Served("comdty_vanilla_option") /\ upper(request.exercise_type) = "AMERICAN"
     /\ result.ok)
    => \E o \in {UnshiftedOption(request)} :
          result.frame.values[1][1] = NPV(o, request.evaluation_date)
          /\ result.frame.values[1][2] = delta(o, request.evaluation_date)
          /\ result.frame.values[1][3] = gamma(o, request.evaluation_date)
          /\ result.frame.values[1][4] = theta(o, request.evaluation_date)

\* C2: the spread's frame has the columns <type>_LONG, <type>_SHORT,
\* <type>_SPREAD; the first two are the single-option results at the long and
\* the short strike, and every row of the third is long minus short.
C2_SpreadIsLongMinusShort ==
    (Served("comdty_vanilla_option_spread") /\ result.ok)
    => \E long \in {comdty_vanilla_option(request.evaluation_date, request.expiry_date,
                        request.forward_price, Fin(request.strike_price_long),
                        request.option_type, request.exercise_type, request.steps,
                        request.volatility, request.yield_curve)},
          short \in {comdty_vanilla_option(request.evaluation_date, request.expiry_date,
                        request.forward_price, Fin(request.strike_price_short),
                        request.option_type, request.exercise_type, request.steps,
                        request.volatility, request.yield_curve)} :
          /\ long.ok /\ short.ok
          /\ result.frame.index = <<"price", "delta", "gamma", "theta", "vega", "rho">>
          /\ result.frame.columns = << request.option_type \o "_LONG",
                                       request.option_type \o "_SHORT",
                                       request.option_type \o "_SPREAD" >>
          /\ result.frame.values[1] = long.frame.values[1]
          /\ result.frame.values[2] = short.frame.values[1]
          /\ Len(result.frame.values) = 3 /\ Len(result.frame.values[3]) = 6
          /\ \A i \in 1..6 : result.frame.values[3][i]
                               = long.frame.values[1][i] - short.frame.values[1][i]

C2_Witness ==
    /\ Served("comdty_vanilla_option_spread") /\ result.ok
    /\ upper(request.exercise_type) = "AMERICAN"
    /\ result.frame.values[3][1] > 0
    /\ result.frame.values[3][5] # 0

\* C3: the butterfly's frame has the columns <type>_LOW, <type>_MIDDLE,
\* <type>_HIGH, <type>_BUTTERFLY; the first three are the single-option results
\* at the three strikes and every row of the fourth is low - 2*middle + high.
C3_ButterflyIsLowMinusTwoMiddlePlusHigh ==
    (Served("comdty_vanilla_option_butterfly") /\ result.ok)
    => \E low \in {comdty_vanilla_option(request.evaluation_date, request.expiry_date,
                       request.forward_price, Fin(request.strike_price_low_long),
                       request.option_type, request.exercise_type, request.steps,
                       request.volatility, request.yield_curve)},
          middle \in {comdty_vanilla_option(request.evaluation_date, request.expiry_date,
                       request.forward_price, Fin(request.strike_price_middle_short),
                       request.option_type, request.exercise_type, request.steps,
                       request.volatility, request.yield_curve)},
          high \in {comdty_vanilla_option(request.evaluation_date, request.expiry_date,
                       request.forward_price, Fin(request.strike_price_high_long),
                       request.option_type, request.exercise_type, request.steps,
                       request.volatility, request.yield_curve)} :
          /\ low.ok /\ middle.ok /\ high.ok
          /\ result.frame.index = <<"price", "delta", "gamma", "theta", "vega", "rho">>
          /\ result.frame.columns = << request.option_type \o "_LOW",
                                       request.option_type \o "_MIDDLE",
                                       request.option_type \o "_HIGH",
                                       request.option_type \o "_BUTTERFLY" >>
          /\ result.frame.values[1] = low.frame.values[1]
          /\ result.frame.values[2] = middle.frame.values[1]
          /\ result.frame.values[3] = high.frame.values[1]
          /\ Len(result.frame.values) = 4 /\ Len(result.frame.values[4]) = 6
          /\ \A i \in 1..6 : result.frame.values[4][i]
                               = low.frame.values[1][i] - 2 * middle.frame.values[1][i]
                                 + high.frame.values[1][i]

C3_Witness ==
    /\ Served("comdty_vanilla_option_butterfly") /\ result.ok
    /\ result.frame.values[2][1] > 0
    /\ result.frame.values[4][1] # 0
    /\ result.frame.values[4][1] # result.frame.values[1][1] - result.frame.values[2][1]
                                     + result.frame.values[3][1]

PricingOps == {"comdty_vanilla_option", "comdty_vanilla_option_delta",
               "comdty_vanilla_option_spread", "comdty_vanilla_option_collar",
               "comdty_vanilla_option_butterfly", "comdty_vanilla_option_calendar_spread"}

\* C5 (as claimed): every pricing operation returns exactly the six rows price,
\* delta, gamma, theta, vega, rho.
C5_SixGreekRowsEverywhere ==
    (request.op \in PricingOps /\ result.ok)
    => result.frame.index = <<"price", "delta", "gamma", "theta", "vega", "rho">>

\* C5 (amended): the single option, spread, collar and butterfly return exactly
\* the rows price, delta, gamma, theta, vega, rho, in 1, 3, 3 and 4 columns; the
\* delta solve returns those six rows followed by d1, riskfree_rate,
\* volatility_atm, years_to_maturity, strike_price in one column; the calendar
\* spread returns price, payoff, risk_free_rate_long, risk_free_rate_short,
\* volatility_long, volatility_short in one column.  Every column holds one cell
\* per row.
C5_RowsPerOperation ==
    (request.op \in PricingOps /\ result.ok)
    => /\ \A c \in 1..Len(result.frame.values) :
              Len(result.frame.values[c]) = Len(result.frame.index)
       /\ Len(result.frame.values) = Len(result.frame.columns)
       /\ Len(result.frame.columns)
            = CASE Served("comdty_vanilla_option_spread") -> 3
                [] Served("comdty_vanilla_option_collar") -> 3
                [] Served("comdty_vanilla_option_butterfly") -> 4
                [] OTHER -> 1
       /\ result.frame.index
            = CASE Served("comdty_vanilla_option_delta") ->
                     <<"price", "delta", "gamma", "theta", "vega", "rho", "d1",
                       "riskfree_rate", "volatility_atm", "years_to_maturity",
                       "strike_price">>
                [] Served("comdty_vanilla_option_calendar_spread") ->
                     <<"price", "payoff", "risk_free_rate_long", "risk_free_rate_short",
                       "volatility_long", "volatility_short">>
                [] OTHER -> <<"price", "delta", "gamma", "theta", "vega", "rho">>

C5_Witness ==
    /\ Served("comdty_vanilla_option_delta") /\ result.ok
    /\ Len(result.frame.index) = 11
    /\ result.frame.values[1][1] > 0

\* the central differences of the prices on trees of `steps` steps over the
\* process with the volatility or the zero rate shifted by +bump and -bump
VegaQuotient(option, process, volatility, strike, expiry, steps, bump, date) ==
    ((ShiftedPrice(option,
                   BlackProcess(process.x0, process.curve,
                                BlackConstantVol(date, blackVol(volatility, expiry, strike)
                                                       + bump)),
                   steps, date)
      - ShiftedPrice(option,
                     BlackProcess(process.x0, process.curve,
                                  BlackConstantVol(date, blackVol(volatility, expiry, strike)
                                                         - bump)),
                     steps, date)) * 100) \div (2 * bump)
RhoQuotient(option, process, yield_curve, volatility, expiry, steps, bump, date) ==
    ((ShiftedPrice(option,
                   BlackProcess(process.x0,
                                FlatForward(date, zeroRate(yield_curve, expiry) + bump),
                                volatility),
                   steps, date)
      - ShiftedPrice(option,
                     BlackProcess(process.x0,
                                  FlatForward(date, zeroRate(yield_curve, expiry) - bump),
                                  volatility),
                     steps, date)) * 1000) \div (2 * bump)

\* C6: each estimator returns (price_up - price_down) / (2 * bump), the two
\* prices being the given option's on binomial trees of int(steps) steps over
\* the process with the surface volatility at (expiry, strike) (vega) or the
\* zero rate to expiry (rho) shifted by +bump and -bump; inside the AMERICAN
\* branch these are the step count of the base engine and the default bumps
\* 0.01 and 0.001.
C6_CentralDifference ==
    /\ (Served("estimate_vega") /\ result.ok)
       => result.value = VegaQuotient(request.option, request.process, request.volatility,
                                      Fin(request.strike_price), request.expiry_date,
                                      int(request.steps), request.bump, evaluationDate)
    /\ (Served("estimate_rho") /\ result.ok)
       => result.value = RhoQuotient(request.option, request.process, request.yield_curve,
                                     request.volatility, request.expiry_date,
                                     int(request.steps), request.bump, evaluationDate)
    /\ (Served("comdty_vanilla_option") /\ upper(request.exercise_type) = "AMERICAN"
        /\ result.ok)
       => \E o \in {UnshiftedOption(request)} :
             /\ o.engine.steps = int(request.steps)
             /\ result.frame.values[1][5]
                  = VegaQuotient(o, o.engine.process, request.volatility,
                                 Fin(request.strike_price), request.expiry_date,
                                 o.engine.steps, 1, request.evaluation_date)
             /\ result.frame.values[1][6]
                  = RhoQuotient(o, o.engine.process, request.yield_curve,
                                request.volatility, request.expiry_date,
                                o.engine.steps, 1, request.evaluation_date)

C6_Witness ==
    /\ Served("estimate_vega") /\ result.ok
    /\ request.bump = 2
    /\ request.steps = Num(2 * MaxSteps - 1)
    /\ result.value > 0

\* C7: for a CALL or PUT the delta solve takes d1 = norm.ppf(delta * e^(rT)) for
\* a CALL and norm.ppf(delta * e^(rT) + 1) for a PUT, r the zero rate to expiry
\* and T the year fraction from evaluation to expiry, derives
\* strike = forward / exp(vol * sqrt(T) * d1 - 0.5 * vol^2 * T) with vol the
\* surface volatility at (T, forward), prices a European option at that strike
\* on the analytic engine, and returns its six Greek rows followed by d1,
\* riskfree_rate, volatility_atm, years_to_maturity, strike_price.
C7_DeltaSolve ==
    (Served("comdty_vanilla_option_delta") /\ result.ok
     /\ upper(request.option_type) \in {"CALL", "PUT"})
    => LET T == yearFraction(request.evaluation_date, request.expiry_date)
           r == zeroRate(request.yield_curve, request.expiry_date)
           vol == blackVolT(request.volatility, T, request.forward_price)
           scaled == (request.delta * np_exp(r * T)) \div 1000
           d1 == IF upper(request.option_type) = "CALL" THEN norm_ppf(scaled)
                 ELSE norm_ppf(scaled + 100)
           col == result.frame.values[1]
           o == Option(QlType(request.option_type), col[11], "European",
                       request.expiry_date,
                       AnalyticEuropeanEngine(BlackProcess(request.forward_price,
                                                           request.yield_curve,
                                                           request.volatility)))
       IN /\ result.frame.index
               = <<"price", "delta", "gamma", "theta", "vega", "rho", "d1",
                   "riskfree_rate", "volatility_atm", "years_to_maturity", "strike_price">>
          /\ Len(result.frame.values) = 1 /\ Len(col) = 11
          /\ col[7] = d1 /\ col[8] = r /\ col[9] = vol /\ col[10] = T
          /\ d1.cls = "fin"
             => col[11] = Fin((request.forward_price * 1000)
                              \div np_exp((vol * np_sqrt(T) * d1.v) \div 1000
                                          - (vol * vol * T) \div 20))
          /\ col[1] = NPV(o, request.evaluation_date)
          /\ col[2] = delta(o, request.evaluation_date)
          /\ col[3] = gamma(o, request.evaluation_date)
          /\ col[4] = theta(o, request.evaluation_date)
          /\ col[5] = vega(o, request.evaluation_date)
          /\ col[6] = rho(o, request.evaluation_date)

C7_Witness ==
    /\ Served("comdty_vanilla_option_delta") /\ result.ok
    /\ upper(request.option_type) = "PUT"
    /\ request.expiry_date > request.evaluation_date
    /\ result.frame.values[1][7].cls = "fin"
    /\ result.frame.values[1][11].cls = "fin"
    /\ result.frame.values[1][11].v > request.forward_price
    /\ result.frame.values[1][1] > 0

\* C8: a delta solve whose norm.ppf argument, delta * e^(rT) for a CALL and
\* delta * e^(rT) + 1 for a PUT, lies outside the open interval (0, 1) reports a
\* failure and returns no table.
C8_OutOfDomainDeltaFails ==
    (Served("comdty_vanilla_option_delta")
     /\ zeroRate_ok(request.yield_curve, request.expiry_date)
     /\ \E p \in {PpfArgument(request.delta, request.option_type,
                              zeroRate(request.yield_curve, request.expiry_date),
                              yearFraction(request.evaluation_date, request.expiry_date))} :
           p <= 0 \/ p >= 100)
    => ~result.ok /\ result.frame = EmptyFrame

\* C9: a pricing call whose option_type is not CALL or PUT, or whose
\* exercise_type is not EUROPEAN or AMERICAN, compared case-insensitively, fails
\* before any process, payoff or engine is built and before any price is read.
C9_UnknownEnumFailsFirst ==
    (request.op \in PricingOps
     /\ \/ "option_type" \in DOMAIN request
           /\ upper(request.option_type) \notin {"CALL", "PUT"}
        \/ "exercise_type" \in DOMAIN request
           /\ upper(request.exercise_type) \notin {"EUROPEAN", "AMERICAN"})
    => /\ ~result.ok
       /\ \A call \in {"BlackProcess", "PlainVanillaPayoff", "BinomialCRRVanillaEngine",
                       "AnalyticEuropeanEngine", "NPV"} : ~Made(call)

\* C10: comdty_vanilla_option with a non-positive strike_price, with steps < 1
\* on an AMERICAN exercise, or with an expiry_date not after the evaluation_date
\* fails before the BlackProcess is constructed.
C10_PreconditionsFailBeforeProcess ==
    (Served("comdty_vanilla_option")
     /\ \/ request.strike_price <= 0
        \/ upper(request.exercise_type) = "AMERICAN" /\ request.steps # None
           /\ request.steps[1] < 2
        \/ request.expiry_date <= request.evaluation_date)
    => ~result.ok /\ ~Made("BlackProcess")

\* C11: a calendar spread called with paths = 0 fails with an error and returns
\* no table.
C11_ZeroPathsFails ==
    (Served("comdty_vanilla_option_calendar_spread")
     /\ request.paths # None /\ request.paths[1] = 0)
    => ~result.ok /\ result.frame = EmptyFrame

\* C12: estimate_vega and estimate_rho called with bump = 0 return no value; where
\* both shifted prices were obtained the call ends in the division's
\* ZeroDivisionError.
C12_ZeroBumpRejected ==
    (request.op \in {"estimate_vega", "estimate_rho"} /\ request.bump = 0)
    => /\ ~result.ok
       /\ Len(SelectSeq(result.events, LAMBDA c : c = "NPV")) = 2
          => result.error = "ZeroDivisionError"

C12_Witness ==
    /\ Served("estimate_rho") /\ request.bump = 0
    /\ Len(SelectSeq(result.events, LAMBDA c : c = "NPV")) = 2
    /\ result.error = "ZeroDivisionError"

\* C13: in a calendar spread on a CALL or PUT that drew at least one path, the
\* horizon T is the year fraction from evaluation_date to the earlier expiry, r is
\* the zero rate to that expiry, the per-path payoff is max(long - short - strike, 0)
\* for a CALL and max(strike - (long - short), 0) for a PUT, payoff is their mean
\* and price = payoff * exp(-r * T); payoff >= 0 and price >= 0.
C13_CalendarSpreadPrice ==
    (Served("comdty_vanilla_option_calendar_spread") /\ result.ok
     /\ upper(request.option_type) \in {"CALL", "PUT"} /\ int(request.paths) >= 1)
    => LET nearer == IF request.expiry_date_long <= request.expiry_date_short
                     THEN request.expiry_date_long ELSE request.expiry_date_short
           T == yearFraction(request.evaluation_date, nearer)
           r == zeroRate(request.yield_curve, nearer)
           n == int(request.paths)
           PathPayoff(i) ==
               LET s == request.stream[i][1] - request.stream[i][2]
               IN IF upper(request.option_type) = "CALL"
                  THEN (IF s - request.strike_price > 0 THEN s - request.strike_price ELSE 0)
                  ELSE (IF request.strike_price - s > 0 THEN request.strike_price - s ELSE 0)
           mean == SumSeq([i \in 1..n |-> PathPayoff(i)]) \div n
           col == result.frame.values[1]
       IN /\ col[2] = Fin(mean)
          /\ col[1] = Fin((mean * np_exp(-(r * T))) \div 1000)
          /\ col[2].v >= 0 /\ col[1].v >= 0
          /\ col[3] = zeroRate(request.yield_curve, request.expiry_date_long)
          /\ col[4] = zeroRate(request.yield_curve, request.expiry_date_short)

C13_Witness ==
    /\ Served("comdty_vanilla_option_calendar_spread") /\ result.ok
    /\ upper(request.option_type) = "PUT" /\ int(request.paths) = MaxPaths
    /\ request.expiry_date_short < request.expiry_date_long
    /\ request.stream[1] # request.stream[2]
    /\ result.frame.values[1][1].v > 0
    /\ result.frame.values[1][1].v < result.frame.values[1][2].v

\* C14: every pricing or structuring call either returns a complete table, one
\* cell for every row in every leg and structure column, or raises and returns
\* nothing; a structure one of whose legs fails returns no table, whichever leg
\* failed and however many were priced before it.
C14_AllOrNothing ==
    request.op \in PricingOps
    => /\ ~result.ok => result.frame = EmptyFrame /\ result.error # ""
       /\ result.ok
          => /\ result.error = ""
             /\ Len(result.frame.index) >= 6
             /\ Len(result.frame.columns)
                  = CASE Served("comdty_vanilla_option_spread") -> 3
                      [] Served("comdty_vanilla_option_collar") -> 3
                      [] Served("comdty_vanilla_option_butterfly") -> 4
                      [] OTHER -> 1
             /\ Len(result.frame.values) = Len(result.frame.columns)
             /\ \A c \in 1..Len(result.frame.values) :
                   DOMAIN result.frame.values[c] = 1..Len(result.frame.index)

\* a butterfly whose first two legs were priced and framed and whose last leg raised
C14_Witness ==
    /\ Served("comdty_vanilla_option_butterfly") /\ ~result.ok
    /\ Len(SelectSeq(result.events, LAMBDA c : c = "DataFrame")) = 2
    /\ result.frame = EmptyFrame

\* C15: the delta-to-strike round trip recovers the strike, and in particular the
\* volatility the delta solve inverts d1 with (the row volatility_atm) is the
\* volatility under which the option at the derived strike is priced: the
\* surface volatility at (expiry_date, strike_price) that the analytic engine
\* reads.  Stated for a surface whose reference date is the evaluation date and
\* an option that is priced (not expired, finite positive strike).
C15_InversionVolIsPricingVol ==
    (Served("comdty_vanilla_option_delta") /\ result.ok
     /\ upper(request.option_type) \in {"CALL", "PUT"}
     /\ request.volatility.ref = request.evaluation_date
     /\ request.expiry_date > request.evaluation_date
     /\ result.frame.values[1][11].cls = "fin" /\ result.frame.values[1][11].v > 0)
    => result.frame.values[1][9]
         = blackVol(request.volatility, request.expiry_date, result.frame.values[1][11])

\* ------------------------------------------------------- interleaved calls
\* Two callers each run comdty_vanilla_option once, a line group at a time, with
\* nothing between them but ql.Settings.instance().evaluationDate.  Here
\*   evaluationDate  is the global date,
\*   request[t]      is caller t's arguments and the line group it is at,
\*   result[t]       is what caller t has read and computed so far.
Threads == {1, 2}
ThreadCalls ==
    [evaluation_date : EvalDates, expiry_date : Dates, forward_price : Forwards,
     strike_price : {9000}, option_type : {"put"}, exercise_type : {"EUROPEAN", "AMERICAN"},
     steps : {Num(2 * MaxSteps)}, volatility : {[ref |-> 0, base |-> 20, term |-> 0, skew |-> 0]},
     yield_curve : {[ref |-> 0, base |-> 50, term |-> 0]}]

Other(t) == 3 - t
Running(pc) == pc \notin {"idle", "done"}
\* what a call returns to its caller
Table(r) == [ok |-> r.ok, error |-> r.error, frame |-> r.frame]
NotYet == [ok |-> FALSE, error |-> "none", frame |-> EmptyFrame]
NoEstimate == EstimateRaise("none", << >>, << >>)

\* line 30: the value the global date holds after the assignment
SettingsDateKept(current, evaluation_date) == current
SettingsDate(current, evaluation_date) == evaluation_date

ThreadProcess(c) == BlackProcess(c.forward_price, c.yield_curve, c.volatility)
ThreadOption(c) ==
    Option(QlType(c.option_type), Fin(c.strike_price), "American", c.expiry_date,
           BinomialCRRVanillaEngine(ThreadProcess(c), int(c.steps)))

\* a step of caller t as the other caller's bookkeeping sees it: the other call
\* is no longer alone if it was between its first and its last line
Interleaved(t) ==
    [result[Other(t)] EXCEPT !.alone = @ /\ ~Running(request[Other(t)].pc)]

InitThreads ==
    /\ evaluationDate \in EvalDates
    /\ request \in [Threads -> {[call |-> c, pc |-> "idle"] : c \in ThreadCalls}]
    /\ result = [t \in Threads |-> [seen |-> << >>, alone |-> TRUE, vega |-> NoEstimate,
                                    rho |-> NoEstimate, out |-> NotYet]]

\* lines 30-43: the date is written, then process, payoff and, on AMERICAN,
\* exercise, engine and option are built
SetDate(t) ==
    /\ request[t].pc = "idle"
    /\ evaluationDate' = SettingsDate(evaluationDate, request[t].call.evaluation_date)
    /\ \E c \in {request[t].call} :
          \E failed \in {CASE upper(c.exercise_type) # "AMERICAN" -> ""
                           [] ~AmericanExercise_ok(c.evaluation_date, c.expiry_date)
                                -> "RuntimeError"
                           [] ~int_ok(c.steps) -> "TypeError"
                           [] ~BinomialCRRVanillaEngine_ok(int(c.steps)) -> "RuntimeError"
                           [] OTHER -> ""} :
             /\ request' = [request EXCEPT ![t].pc =
                               IF failed # "" THEN "done"
                               ELSE IF upper(c.exercise_type) = "AMERICAN" THEN "vega"
                               ELSE "frame"]
             /\ result' = [result EXCEPT
                              ![t] = [@ EXCEPT !.alone = ~Running(request[Other(t)].pc),
                                               !.out = IF failed # ""
                                                       THEN [NotYet EXCEPT !.error = failed]
                                                       ELSE @],
                              ![Other(t)] = Interleaved(t)]

\* line 44: estimate_vega reads the global date (line 263) and prices twice
RunEstimateVega(t) ==
    /\ request[t].pc = "vega"
    /\ \E c \in {request[t].call} :
       \E v \in {estimate_vega(ThreadOption(c), ThreadProcess(c), c.volatility,
                               Fin(c.strike_price), c.expiry_date, c.steps,
                               DefaultVegaBump, evaluationDate)} :
          /\ request' = [request EXCEPT ![t].pc = IF v.ok THEN "rho" ELSE "done"]
          /\ result' = [result EXCEPT
                           ![t] = [@ EXCEPT !.seen = Append(@, evaluationDate),
                                            !.vega = v,
                                            !.out = IF v.ok THEN @
                                                    ELSE [NotYet EXCEPT !.error = v.error]],
                           ![Other(t)] = Interleaved(t)]
    /\ UNCHANGED evaluationDate

\* line 45: estimate_rho reads the global date (line 294) and prices twice
RunEstimateRho(t) ==
    /\ request[t].pc = "rho"
    /\ \E c \in {request[t].call} :
       \E r \in {estimate_rho(result[t].vega.option, ThreadProcess(c), c.yield_curve,
                              c.volatility, c.expiry_date, c.steps, DefaultRhoBump,
                              evaluationDate)} :
          /\ request' = [request EXCEPT ![t].pc = IF r.ok THEN "frame" ELSE "done"]
          /\ result' = [result EXCEPT
                           ![t] = [@ EXCEPT !.seen = Append(@, evaluationDate),
                                            !.rho = r,
                                            !.out = IF r.ok THEN @
                                                    ELSE [NotYet EXCEPT !.error = r.error]],
                           ![Other(t)] = Interleaved(t)]
    /\ UNCHANGED evaluationDate

\* lines 47-55: on the other branch the analytic engine is set; then NPV and the
\* Greeks are read, each under the global date, and the frame is returned
ReadGreeks(t) ==
    /\ request[t].pc = "frame"
    /\ \E c \in {request[t].call} :
       \E r \in {IF upper(c.exercise_type) = "AMERICAN"
                 THEN GreekFrame(result[t].rho.option, result[t].vega.value,
                                 result[t].rho.value, c.option_type, evaluationDate, << >>)
                 ELSE EuropeanBranch(evaluationDate, c.expiry_date, ThreadProcess(c),
                                     QlType(c.option_type), Fin(c.strike_price),
                                     c.option_type, << >>)} :
          /\ request' = [request EXCEPT ![t].pc = "done"]
          /\ result' = [result EXCEPT
                           ![t] = [@ EXCEPT !.seen = Append(@, evaluationDate),
                                            !.out = Table(r)],
                           ![Other(t)] = Interleaved(t)]
    /\ UNCHANGED evaluationDate

NextThreads ==
    \E t \in Threads :
       \/ SetDate(t)
       \/ RunEstimateVega(t)
       \/ RunEstimateRho(t)
       \/ ReadGreeks(t)

SpecThreads == InitThreads /\ [][NextThreads]_vars

\* the table the same call returns when nothing runs beside it
Serial(c) ==
    Table(comdty_vanilla_option(c.evaluation_date, c.expiry_date, c.forward_price,
                                Fin(c.strike_price), c.option_type, c.exercise_type,
                                c.steps, c.volatility, c.yield_curve))
SeesOwnDate(t) ==
    \A i \in 1..Len(result[t].seen) : result[t].seen[i] = request[t].call.evaluation_date

\* C16: the global date is all that two calls share; a call that ran with no
\* step of the other call between its first line and its last saw its own
\* evaluation_date in every valuation step and returned the table of the call
\* run on its own; and two calls with the same evaluation_date, however their
\* steps interleave, each saw that date throughout and each returned the table
\* it returns when run on its own.
C16_SerializedOrSameDate ==
    \A t \in Threads :
       /\ (request[t].pc = "done" /\ result[t].alone)
          => SeesOwnDate(t) /\ result[t].out = Serial(request[t].call)
       /\ request[1].call.evaluation_date = request[2].call.evaluation_date
          => /\ Running(request[t].pc) => evaluationDate = request[t].call.evaluation_date
             /\ SeesOwnDate(t)
             /\ request[t].pc = "done" => result[t].out = Serial(request[t].call)

\* two AMERICAN calls with one evaluation_date, interleaved, both priced
C16_Witness ==
    /\ \A t \in Threads :
          /\ request[t].pc = "done" /\ ~result[t].alone
          /\ upper(request[t].call.exercise_type) = "AMERICAN"
          /\ result[t].out.ok /\ result[t].out.frame.values[1][1] > 0
          /\ Len(result[t].seen) = 3
    /\ request[1].call.evaluation_date = request[2].call.evaluation_date
    /\ request[1].call.expiry_date # request[2].call.expiry_date

\* the calls that price, build an engine or a process, or read a value
ValuationCalls ==
    {"BlackProcess", "StochasticProcessArray", "BinomialCRRVanillaEngine",
     "AnalyticEuropeanEngine", "GaussianMultiPathGenerator", "next", "estimate_vega",
     "estimate_rho", "NPV", "delta", "gamma", "theta", "vega", "rho"}
\* the global date is written before every valuation call of the result, and for
\* each leg (each payoff) right before the leg's process is built
DateSetBeforeValuation ==
    \A i \in 1..Len(result.events) :
       /\ result.events[i] \in ValuationCalls
          => \E j \in 1..(i - 1) : result.events[j] = "Settings.evaluationDate"
       /\ result.events[i] = "PlainVanillaPayoff"
          => /\ i > 2
             /\ result.events[i - 1] = "BlackProcess"
             /\ result.events[i - 2] = "Settings.evaluationDate"

\* C17 (as claimed): every entry point that values an option sets the global
\* evaluation date to its evaluation_date before any process or engine is built
\* or any value read, and after any call the global date is the evaluation_date
\* of that call.
C17_DateOfMostRecentCall ==
    request.op \in PricingOps
    => DateSetBeforeValuation /\ evaluationDate = request.evaluation_date

\* C17 (amended): every entry point that values an option sets the global
\* evaluation date to its evaluation_date before any process or engine is built
\* or any value read, every leg of a structure after the same assignment; after
\* a call that reached that assignment the global date is the call's
\* evaluation_date; the only calls that do not reach it are delta solves that
\* raised in their own curve queries (lines 75-78), and they leave the global
\* date as it was.
C17_DateSetByCallsThatPrice ==
    [][request'.op \in PricingOps
       => /\ DateSetBeforeValuation'
          /\ Made("Settings.evaluationDate")' => evaluationDate' = request'.evaluation_date
          /\ ~Made("Settings.evaluationDate")'
             => /\ request'.op = "comdty_vanilla_option_delta"
                /\ ~result'.ok
                /\ \A i \in 1..Len(result'.events) :
                      result'.events[i] \in {"yearFraction", "zeroRate", "blackVol"}
                /\ evaluationDate' = evaluationDate]_vars

\* a butterfly of three AMERICAN legs, each valued after its own assignment
C17_Witness ==
    /\ Served("comdty_vanilla_option_butterfly") /\ result.ok
    /\ upper(request.exercise_type) = "AMERICAN"
    /\ Len(SelectSeq(result.events, LAMBDA c : c = "Settings.evaluationDate")) = 3
    /\ evaluationDate = request.evaluation_date
    /\ result.frame.values[4][1] # 0

\* how often a call appears among the library calls of the result
Count(call) == Len(SelectSeq(result.events, LAMBDA c : c = call))

\* C18: on EUROPEAN, vega and rho are the analytic engine's own values, neither
\* estimator is invoked and the outcome is the same for every steps value, None
\* included (the delta solve passes None); on AMERICAN a call that returns a
\* table invoked estimate_vega and estimate_rho exactly once each, with the
\* steps the base binomial engine was built with.
C18_ExerciseDispatch ==
    /\ (Served("comdty_vanilla_option") /\ request.exercise_type = "EUROPEAN")
       => /\ Count("estimate_vega") = 0 /\ Count("estimate_rho") = 0
          /\ Count("BinomialCRRVanillaEngine") = 0
          /\ \A st \in StepsValues :
                Table(result)
                  = Table(comdty_vanilla_option(request.evaluation_date,
                              request.expiry_date, request.forward_price,
                              Fin(request.strike_price), request.option_type, "EUROPEAN",
                              st, request.volatility, request.yield_curve))
          /\ result.ok
             => \E o \in {Option(QlType(request.option_type), Fin(request.strike_price),
                                 "European", request.expiry_date,
                                 AnalyticEuropeanEngine(BlackProcess(request.forward_price,
                                     request.yield_curve, request.volatility)))} :
                   /\ result.frame.values[1][5] = vega(o, request.evaluation_date)
                   /\ result.frame.values[1][6] = rho(o, request.evaluation_date)
    /\ (Served("comdty_vanilla_option_delta"))
       => Count("estimate_vega") = 0 /\ Count("estimate_rho") = 0
    /\ (Served("comdty_vanilla_option") /\ request.exercise_type \in {"AMERICAN", "american"}
        /\ result.ok)
       => /\ Count("estimate_vega") = 1 /\ Count("estimate_rho") = 1
          /\ Count("BinomialCRRVanillaEngine") = 5
          /\ \E o \in {UnshiftedOption(request)} :
                /\ result.frame.values[1][5]
                     = VegaQuotient(o, o.engine.process, request.volatility,
                                    Fin(request.strike_price), request.expiry_date,
                                    int(request.steps), DefaultVegaBump,
                                    request.evaluation_date)
                /\ result.frame.values[1][6]
                     = RhoQuotient(o, o.engine.process, request.yield_curve,
                                   request.volatility, request.expiry_date,
                                   int(request.steps), DefaultRhoBump,
                                   request.evaluation_date)

\* a EUROPEAN call priced with a steps value no binomial engine accepts
C18_Witness ==
    /\ Served("comdty_vanilla_option") /\ request.exercise_type = "EUROPEAN"
    /\ request.steps = Num(0)
    /\ result.ok /\ result.frame.values[1][1] > 0 /\ result.frame.values[1][5] > 0

\* C19: estimate_vega and estimate_rho leave the option they are given unchanged:
\* on return its pricing engine is the engine it had on entry and its NPV reads
\* as before the call.
C19_EstimatorsLeaveOptionUnchanged ==
    (request.op \in {"estimate_vega", "estimate_rho"} /\ result.ok)
    => /\ result.option.engine = request.option.engine
       /\ NPV(result.option, evaluationDate) = NPV(request.option, evaluationDate)

\* C20: the Monte Carlo loop draws exactly int(paths) multi-paths, paths truncated
\* toward zero and none drawn for a negative paths; each draw gives one terminal
\* value to the long and one to the short list; the payoff is the sum of the
\* per-path payoffs divided by the number of draws, whatever the order of the
\* draws.
C20_LoopDrawsIntPaths ==
    (Served("comdty_vanilla_option_calendar_spread") /\ Made("GaussianMultiPathGenerator"))
    => LET n == IF request.paths[1] <= 0 THEN 0 ELSE request.paths[1] \div 2
           PathPayoff(x) ==
               IF upper(request.option_type) = "CALL"
               THEN (IF x[1] - x[2] - request.strike_price > 0
                     THEN x[1] - x[2] - request.strike_price ELSE 0)
               ELSE (IF request.strike_price - (x[1] - x[2]) > 0
                     THEN request.strike_price - (x[1] - x[2]) ELSE 0)
       IN /\ result.ok
          /\ Count("next") = n
          /\ Count("mean") = 1
          /\ n >= 1
             => \A order \in Permutations(1..n) :
                   result.frame.values[1][2]
                     = Fin(SumSeq([i \in 1..n |-> PathPayoff(request.stream[order[i]])])
                           \div n)

\* a non-integral paths, truncated, with a positive payoff
C20_Witness ==
    /\ Served("comdty_vanilla_option_calendar_spread") /\ result.ok
    /\ request.paths = Num(2 * MaxPaths - 1)
    /\ Count("next") = MaxPaths - 1
    /\ result.frame.values[1][2].cls = "fin" /\ result.frame.values[1][2].v > 0

\* ==================================================================== qlutils
\* QuantSpace/libs/qlutils.py: the name tables and their resolvers, and the
\* functions of qlmisc.py, qlyield.py and qlvolsurface.py that resolve names
\* before they build a QuantLib object.
\*
\* A Python string is the tuple of its characters, so that str.upper() is
\* computed character by character.
LowerCase == <<"a", "b", "c", "d", "e", "f", "g", "h", "i", "j", "k", "l", "m", "n", "o", "p", "q", "r", "s", "t", "u", "v", "w", "x", "y", "z">>
UpperCase == <<"A", "B", "C", "D", "E", "F", "G", "H", "I", "J", "K", "L", "M", "N", "O", "P", "Q", "R", "S", "T", "U", "V", "W", "X", "Y", "Z">>
Letter(alphabet, c) == CHOOSE i \in 1..Len(alphabet) : alphabet[i] = c
IsLetter(alphabet, c) == \E i \in 1..Len(alphabet) : alphabet[i] = c
str_upper(s) == [i \in 1..Len(s) |-> IF IsLetter(LowerCase, s[i]) THEN UpperCase[Letter(LowerCase, s[i])] ELSE s[i]]
str_lower(s) == [i \in 1..Len(s) |-> IF IsLetter(UpperCase, s[i]) THEN LowerCase[Letter(UpperCase, s[i])] ELSE s[i]]

\* the module-level tables as they stand after the module is imported
\* (DATE_GENERATION is assigned twice, with the same entries)
DAY_COUNTERS ==
    (<<"S", "I", "M", "P", "L", "E">> :> "SimpleDayCounter()")
    @@ (<<"3", "0", "/", "3", "6", "0">> :> "Thirty360()")
    @@ (<<"A", "C", "T", "/", "3", "6", "0">> :> "Actual360()")
    @@ (<<"A", "C", "T", "/", "3", "6", "5", "F", "i", "x", "e", "d">> :> "Actual365Fixed()")
    @@ (<<"A", "C", "T", "/", "3", "6", "5", "F", "i", "x", "e", "d", "C", "A", "D">> :> "Actual365Fixed(Canadian)")
    @@ (<<"A", "C", "T", "/", "3", "6", "5", "F", "i", "x", "e", "d", "N", "o", "L", "e", "a", "p">> :> "Actual365Fixed(NoLeap)")
    @@ (<<"A", "C", "T", "/", "A", "C", "T">> :> "ActualActual()")
    @@ (<<"B", "U", "S", "/", "2", "5", "2">> :> "Business252()")
CALENDARS ==
    (<<"U", "K">> :> "UnitedKingdom()")
    @@ (<<"G", "R">> :> "Germany()")
    @@ (<<"I", "T">> :> "Italy()")
    @@ (<<"U", "S">> :> "UnitedStates()")
WEEKDAY_CORRECTION ==
    (<<"U", "N", "A", "D", "J", "U", "S", "T", "E", "D">> :> "Unadjusted")
    @@ (<<"F", "O", "L", "L", "O", "W", "I", "N", "G">> :> "Following")
    @@ (<<"M", "O", "D", "_", "F", "O", "L", "L", "O", "W", "I", "N", "G">> :> "ModifiedFollowing")
    @@ (<<"P", "R", "E", "C", "E", "D", "I", "N", "G">> :> "Preceding")
    @@ (<<"M", "O", "D", "_", "P", "R", "E", "C", "E", "D", "I", "N", "G">> :> "ModifiedPreceding")
COMPOUNDING ==
    (<<"S", "I", "M", "P", "L", "E">> :> "Simple")
    @@ (<<"C", "O", "M", "P", "O", "U", "N", "D", "E", "D">> :> "Compounded")
    @@ (<<"C", "O", "N", "T", "I", "N", "U", "O", "U", "S">> :> "Continuous")
FREQUENCIES ==
    (<<"N", "O", "F", "R", "E", "Q", "U", "E", "N", "C", "Y">> :> "NoFrequency")
    @@ (<<"O", "N", "C", "E">> :> "Once")
    @@ (<<"A", "N", "N", "U", "A", "L">> :> "Annual")
    @@ (<<"S", "E", "M", "I", "A", "N", "N", "U", "A", "L">> :> "Semiannual")
    @@ (<<"E", "V", "E", "R", "Y", "F", "O", "U", "R", "T", "H", "M", "O", "N", "T", "H">> :> "EveryFourthMonth")
    @@ (<<"Q", "U", "A", "R", "T", "E", "R", "L", "Y">> :> "Quarterly")
    @@ (<<"B", "I", "M", "O", "N", "T", "H", "L", "Y">> :> "Bimonthly")
    @@ (<<"M", "O", "N", "T", "H", "L", "Y">> :> "Monthly")
    @@ (<<"E", "V", "E", "R", "Y", "F", "O", "U", "R", "T", "H", "W", "E", "E", "K">> :> "EveryFourthWeek")
    @@ (<<"B", "I", "W", "E", "E", "K", "L", "Y">> :> "Biweekly")
    @@ (<<"W", "E", "E", "K", "L", "Y">> :> "Weekly")
    @@ (<<"D", "A", "I", "L", "Y">> :> "Daily")
DATE_GENERATION ==
    (<<"B", "A", "C", "K", "W", "A", "R", "D">> :> "DateGeneration.Backward")
    @@ (<<"F", "O", "R", "W", "A", "R", "D">> :> "DateGeneration.Forward")
    @@ (<<"Z", "E", "R", "O">> :> "DateGeneration.Zero")
    @@ (<<"T", "H", "I", "R", "D", "_", "W", "E", "D", "N", "E", "S", "D", "A", "Y">> :> "DateGeneration.ThirdWednesday")
    @@ (<<"T", "W", "E", "N", "T", "I", "E", "T", "H">> :> "DateGeneration.Twentieth")
    @@ (<<"T", "W", "E", "N", "T", "I", "E", "T", "H", "_", "I", "M", "M">> :> "DateGeneration.TwentiethIMM")
    @@ (<<"C", "D", "S">> :> "DateGeneration.CDS")

\* ------------------------------------------------------------ the resolvers
NoError == [type |-> "", args |-> << >>]
\* the exception a dict raises on a missing key: its one argument is the key
KeyError(key) == [type |-> "KeyError", args |-> <<key>>]
\* d[key]
getitem(d, key) ==
    IF key \in DOMAIN d
    THEN [ok |-> TRUE, value |-> d[key], error |-> NoError]
    ELSE [ok |-> FALSE, value |-> "", error |-> KeyError(key)]

ql_weekday_correction(correction) == getitem(WEEKDAY_CORRECTION, str_upper(correction))
ql_calendar(calendar) == getitem(CALENDARS, str_upper(calendar))
ql_day_counter(day_counter) == getitem(DAY_COUNTERS, str_upper(day_counter))
ql_compounding(compounding) == getitem(COMPOUNDING, str_upper(compounding))
ql_frequency(frequency) == getitem(FREQUENCIES, str_upper(frequency))
\* the second definition of the name is the one the module keeps
ql_date_generation(date_generation) == getitem(DATE_GENERATION, str_upper(date_generation))
\* ql.Period(period) of a well-formed tenor, ql.Date of a datetime
ql_period(period) == [ok |-> TRUE, value |-> "Period", error |-> NoError]
py_to_ql_date(date) == [ok |-> TRUE, value |-> "Date", error |-> NoError]

\* the table behind each resolver
Tables ==
    [ql_weekday_correction |-> WEEKDAY_CORRECTION, ql_calendar |-> CALENDARS,
     ql_day_counter |-> DAY_COUNTERS, ql_compounding |-> COMPOUNDING,
     ql_frequency |-> FREQUENCIES, ql_date_generation |-> DATE_GENERATION]
Resolvers == DOMAIN Tables

\* the parameter names, as Python strings
Param ==
    [correction |-> <<"c", "o", "r", "r", "e", "c", "t", "i", "o", "n">>,
     calendar |-> <<"c", "a", "l", "e", "n", "d", "a", "r">>,
     day_counter |-> <<"d", "a", "y", "_", "c", "o", "u", "n", "t", "e", "r">>,
     compounding |-> <<"c", "o", "m", "p", "o", "u", "n", "d", "i", "n", "g">>,
     frequency |-> <<"f", "r", "e", "q", "u", "e", "n", "c", "y">>,
     date_generation |-> <<"d", "a", "t", "e", "_", "g", "e", "n", "e", "r", "a", "t", "i", "o", "n">>,
     start_date |-> <<"s", "t", "a", "r", "t", "_", "d", "a", "t", "e">>,
     end_date |-> <<"e", "n", "d", "_", "d", "a", "t", "e">>,
     tenor |-> <<"t", "e", "n", "o", "r">>,
     bdc |-> <<"b", "d", "c">>,
     end_date_bdc |-> <<"e", "n", "d", "_", "d", "a", "t", "e", "_", "b", "d", "c">>,
     date_generation_rule |-> <<"d", "a", "t", "e", "_", "g", "e", "n", "e", "r", "a", "t", "i", "o", "n", "_", "r", "u", "l", "e">>,
     date |-> <<"d", "a", "t", "e">>,
     dates |-> <<"d", "a", "t", "e", "s">>,
     evaluation_date |-> <<"e", "v", "a", "l", "u", "a", "t", "i", "o", "n", "_", "d", "a", "t", "e">>,
     expirations |-> <<"e", "x", "p", "i", "r", "a", "t", "i", "o", "n", "s">>]
\* one statement  name = qlu.call(arg)  of a function body; field is the
\* parameter the argument was given for
Step(call, field, arg) == [call |-> call, field |-> field, arg |-> arg]
Call(step) ==
    CASE step.call = "ql_weekday_correction" -> ql_weekday_correction(step.arg)
      [] step.call = "ql_calendar" -> ql_calendar(step.arg)
      [] step.call = "ql_day_counter" -> ql_day_counter(step.arg)
      [] step.call = "ql_compounding" -> ql_compounding(step.arg)
      [] step.call = "ql_frequency" -> ql_frequency(step.arg)
      [] step.call = "ql_date_generation" -> ql_date_generation(step.arg)
      [] step.call = "ql_period" -> ql_period(step.arg)
      [] step.call = "py_to_ql_date" -> py_to_ql_date(step.arg)

\* a function body runs its statements in order; an exception ends the call
\* where it is raised and reaches the caller unchanged
Started == [ok |-> TRUE, error |-> NoError, events |-> << >>, resolved |-> << >>]
RECURSIVE Execute(_, _)
Execute(steps, done) ==
    IF Len(steps) = 0 THEN done
    ELSE Let(Call(Head(steps)), LAMBDA r :
           IF ~r.ok
           THEN [done EXCEPT !.ok = FALSE, !.error = r.error,
                             !.events = Append(@, Head(steps).call)]
           ELSE Execute(Tail(steps),
                        [done EXCEPT !.events = Append(@, Head(steps).call),
                                     !.resolved = Append(@, [field |-> Head(steps).field,
                                                             entry |-> r.value])]))
\* the QuantLib calls that follow the resolutions, in order
Build(done, calls) == IF ~done.ok THEN done ELSE [done EXCEPT !.events = @ \o calls]
\* one conversion per element of a list of dates
DateSteps(field, dates) == [i \in 1..Len(dates) |-> Step("py_to_ql_date", field, dates[i])]

\* qlmisc.year_fraction
year_fraction(day_counter, start_date, end_date) ==
    Build(Execute(<<Step("ql_day_counter", Param.day_counter, day_counter),
                   Step("py_to_ql_date", Param.start_date, start_date),
                   Step("py_to_ql_date", Param.end_date, end_date)>>, Started),
          <<"yearFraction">>)
\* qlmisc.schedule
schedule(start_date, end_date, tenor, calendar, bdc, end_date_bdc, date_generation_rule, end_of_month) ==
    Build(Execute(<<Step("py_to_ql_date", Param.start_date, start_date),
                   Step("py_to_ql_date", Param.end_date, end_date),
                   Step("ql_period", Param.tenor, tenor),
                   Step("ql_calendar", Param.calendar, calendar),
                   Step("ql_weekday_correction", Param.bdc, bdc),
                   Step("ql_weekday_correction", Param.end_date_bdc, end_date_bdc),
                   Step("ql_date_generation", Param.date_generation_rule, date_generation_rule)>>, Started),
          <<"Schedule">>)
\* qlyield.flat_forward
flat_forward(date, rate, day_counter, compounding, frequency) ==
    Build(Execute(<<Step("py_to_ql_date", Param.date, date),
                   Step("ql_day_counter", Param.day_counter, day_counter),
                   Step("ql_compounding", Param.compounding, compounding),
                   Step("ql_frequency", Param.frequency, frequency)>>, Started),
          <<"FlatForward">>)
\* qlvolsurface.black_constant_vol
black_constant_vol(evaluation_date, calendar, volatility, day_counter) ==
    Build(Execute(<<Step("py_to_ql_date", Param.evaluation_date, evaluation_date),
                   Step("ql_day_counter", Param.day_counter, day_counter),
                   Step("ql_calendar", Param.calendar, calendar)>>, Started),
          <<"SimpleQuote", "BlackConstantVol">>)
\* qlyield.forward_curve
forward_curve(dates, rates, day_counter, calendar) ==
    Build(Execute(DateSteps(Param.dates, dates)
                  \o <<Step("ql_day_counter", Param.day_counter, day_counter),
                       Step("ql_calendar", Param.calendar, calendar)>>, Started),
          <<"ForwardCurve">>)
\* qlyield.zero_rates: one zeroRate query per date
zero_rates(yield_curve, dates, day_counter, compounding) ==
    Build(Execute(DateSteps(Param.dates, dates)
                  \o <<Step("ql_day_counter", Param.day_counter, day_counter),
                       Step("ql_compounding", Param.compounding, compounding)>>, Started),
          [i \in 1..Len(dates) |-> "zeroRate"])
\* qlvolsurface.black_variance_surface
black_variance_surface(evaluation_date, calendar, expirations, strike_pries, volatility_matrix, day_counter) ==
    Build(Execute(<<Step("py_to_ql_date", Param.evaluation_date, evaluation_date),
                    Step("ql_calendar", Param.calendar, calendar)>>
                  \o DateSteps(Param.expirations, expirations)
                  \o <<Step("ql_day_counter", Param.day_counter, day_counter)>>, Started),
          <<"Matrix", "BlackVarianceSurface">>)

\* ------------------------------------------------- the calls that take names
MaxToggle == 2

ToggleCase(c) ==
    IF IsLetter(LowerCase, c) THEN UpperCase[Letter(LowerCase, c)]
    ELSE IF IsLetter(UpperCase, c) THEN LowerCase[Letter(UpperCase, c)]
    ELSE c
\* a key as it is written in its table, in lower case, in upper case, and with
\* the case of any of its first MaxToggle characters changed
Spellings(key) ==
    {str_lower(key), str_upper(key)}
    \cup {[i \in 1..Len(key) |-> IF i \in changed THEN ToggleCase(key[i]) ELSE key[i]] :
            changed \in SUBSET (1..Min(Len(key), MaxToggle))}
\* names that are in no table: the empty string, and the calendar the
\* docstring of qlmisc.schedule gives as its example
Unknown == {<< >>, <<"T", "A", "R", "G", "E", "T">>}
Names(call) == UNION {Spellings(key) : key \in DOMAIN Tables[call]} \cup Unknown
Written(call) == DOMAIN Tables[call] \cup {str_lower(key) : key \in DOMAIN Tables[call]} \cup Unknown
Given(call) == DOMAIN Tables[call] \cup Unknown
DateLists == {<<0>>, <<0, MaxDate>>}

\* a resolver called on its own
ResolveName ==
    /\ request = NoRequest
    /\ \E call \in Resolvers :
          \E name \in Names(call) :
             \E asked \in {Step(call,
                                CASE call = "ql_weekday_correction" -> Param.correction
                                  [] call = "ql_calendar" -> Param.calendar
                                  [] call = "ql_day_counter" -> Param.day_counter
                                  [] call = "ql_compounding" -> Param.compounding
                                  [] call = "ql_frequency" -> Param.frequency
                                  [] call = "ql_date_generation" -> Param.date_generation,
                                name)} :
                /\ request' = [op |-> call, names |-> <<asked>>]
                /\ result' = Execute(<<asked>>, Started)
    /\ UNCHANGED evaluationDate

YearFraction ==
    /\ request = NoRequest
    /\ \E day_counter \in Names("ql_day_counter"), start_date \in Dates, end_date \in Dates :
          /\ request' = [op |-> "year_fraction",
                         names |-> <<Step("ql_day_counter", Param.day_counter, day_counter)>>]
          /\ result' = year_fraction(day_counter, start_date, end_date)
    /\ UNCHANGED evaluationDate

Schedule ==
    /\ request = NoRequest
    /\ \E calendar \in Written("ql_calendar"), bdc \in Written("ql_weekday_correction"),
          end_date_bdc \in Given("ql_weekday_correction"),
          date_generation_rule \in Given("ql_date_generation") :
          /\ request' = [op |-> "schedule",
                         names |-> <<Step("ql_calendar", Param.calendar, calendar),
                                     Step("ql_weekday_correction", Param.bdc, bdc),
                                     Step("ql_weekday_correction", Param.end_date_bdc, end_date_bdc),
                                     Step("ql_date_generation", Param.date_generation_rule,
                                          date_generation_rule)>>]
          /\ result' = schedule(0, MaxDate, "1M", calendar, bdc, end_date_bdc,
                                date_generation_rule, FALSE)
    /\ UNCHANGED evaluationDate

FlatForwardCurve ==
    /\ request = NoRequest
    /\ \E day_counter \in Written("ql_day_counter"), compounding \in Written("ql_compounding"),
          frequency \in Written("ql_frequency") :
          /\ request' = [op |-> "flat_forward",
                         names |-> <<Step("ql_day_counter", Param.day_counter, day_counter),
                                     Step("ql_compounding", Param.compounding, compounding),
                                     Step("ql_frequency", Param.frequency, frequency)>>]
          /\ result' = flat_forward(0, 50, day_counter, compounding, frequency)
    /\ UNCHANGED evaluationDate

ForwardCurve ==
    /\ request = NoRequest
    /\ \E dates \in DateLists, day_counter \in Written("ql_day_counter"),
          calendar \in Names("ql_calendar") :
          /\ request' = [op |-> "forward_curve",
                         names |-> <<Step("ql_day_counter", Param.day_counter, day_counter),
                                     Step("ql_calendar", Param.calendar, calendar)>>]
          /\ result' = forward_curve(dates, [i \in 1..Len(dates) |-> 50], day_counter, calendar)
    /\ UNCHANGED evaluationDate

ZeroRates ==
    /\ request = NoRequest
    /\ \E yield_curve \in YieldCurves, dates \in DateLists,
          day_counter \in Written("ql_day_counter"), compounding \in Names("ql_compounding") :
          /\ request' = [op |-> "zero_rates",
                         names |-> <<Step("ql_day_counter", Param.day_counter, day_counter),
                                     Step("ql_compounding", Param.compounding, compounding)>>]
          /\ result' = zero_rates(yield_curve, dates, day_counter, compounding)
    /\ UNCHANGED evaluationDate

ConstantVol ==
    /\ request = NoRequest
    /\ \E evaluation_date \in EvalDates, calendar \in Written("ql_calendar"),
          day_counter \in Names("ql_day_counter") :
          /\ request' = [op |-> "black_constant_vol",
                         names |-> <<Step("ql_calendar", Param.calendar, calendar),
                                     Step("ql_day_counter", Param.day_counter, day_counter)>>]
          /\ result' = black_constant_vol(evaluation_date, calendar, 20, day_counter)
    /\ UNCHANGED evaluationDate

VarianceSurface ==
    /\ request = NoRequest
    /\ \E evaluation_date \in EvalDates, expirations \in DateLists,
          calendar \in Written("ql_calendar"), day_counter \in Written("ql_day_counter") :
          /\ request' = [op |-> "black_variance_surface",
                         names |-> <<Step("ql_calendar", Param.calendar, calendar),
                                     Step("ql_day_counter", Param.day_counter, day_counter)>>]
          /\ result' = black_variance_surface(evaluation_date, calendar, expirations,
                                              <<9000, 11000>>,
                                              [row \in 1..2 |-> [col \in 1..Len(expirations) |-> 20]],
                                              day_counter)
    /\ UNCHANGED evaluationDate

NextResolvers ==
    \/ ResolveName
    \/ YearFraction
    \/ Schedule
    \/ FlatForwardCurve
    \/ ForwardCurve
    \/ ZeroRates
    \/ ConstantVol
    \/ VarianceSurface
    \/ Consume

SpecResolvers == Init /\ [][NextResolvers]_vars

NameOps ==
    Resolvers \cup {"year_fraction", "schedule", "flat_forward", "forward_curve", "zero_rates",
                    "black_constant_vol", "black_variance_surface"}
QuantLibObjects ==
    {"yearFraction", "Schedule", "FlatForward", "ForwardCurve", "zeroRate", "SimpleQuote",
     "BlackConstantVol", "Matrix", "BlackVarianceSurface"}
\* two names that differ in letter case at most
SameName(a, b) == str_upper(a) = str_upper(b)
\* the name is some spelling of a key of the table it is looked up in
Recognized(asked) == \E key \in DOMAIN Tables[asked.call] : SameName(asked.arg, key)
Contains(text, part) ==
    \E i \in 0..(Len(text) - Len(part)) : SubSeq(text, i + 1, i + Len(part)) = part
\* the text occurs, in whatever letter case, in an argument of the exception
Mentions(error, text) ==
    \E i \in DOMAIN error.args : Contains(str_upper(error.args[i]), str_upper(text))

\* C21: a call given a day_counter, calendar, compounding, frequency,
\* weekday-correction or date-generation-rule name that is in no table fails
\* in the resolver, before any QuantLib curve, surface, schedule or year
\* fraction is computed, and its error names an unrecognized value together
\* with the field that value was given for.
C21_UnrecognizedNameErrorNamesValueAndField ==
    (request.op \in NameOps /\ \E i \in DOMAIN request.names : ~Recognized(request.names[i]))
    => /\ ~result.ok
       /\ result.events[Len(result.events)] \in Resolvers
       /\ \A i \in DOMAIN result.events : result.events[i] \notin QuantLibObjects
       /\ \E i \in DOMAIN request.names :
             /\ ~Recognized(request.names[i])
             /\ Mentions(result.error, request.names[i].arg)
             /\ Mentions(result.error, request.names[i].field)

\* C22: a call whose names are all keys of their tables, in any letter case,
\* succeeds, and each name resolves to the entry of the key it spells.
C22_EveryKeyResolvesInAnyCase ==
    (request.op \in NameOps /\ \A i \in DOMAIN request.names : Recognized(request.names[i]))
    => /\ result.ok
       /\ \A i \in DOMAIN request.names :
             \E j \in DOMAIN result.resolved :
                /\ result.resolved[j].field = request.names[i].field
                /\ \A key \in DOMAIN Tables[request.names[i].call] :
                      SameName(request.names[i].arg, key)
                      => result.resolved[j].entry = Tables[request.names[i].call][key]

====
